---- MODULE Spec2Model ----
(***************************************************************************)
(* Model of the rigid-body inertia utilities of assets/Taks_T1:            *)
(*   calculate_inertia.py           primitive-shape formulas and batch     *)
(*   calculate_inertia_from_stl.py  mesh-based calculator                  *)
(*   update_inertia_all_files.py    patcher of the XML and URDF files      *)
(*   extract_foot_collision.py      foot contact points from a mesh        *)
(* and of scripts/convert_taks_t1_urdf_to_usd.py, the URDF to USD script.  *)
(* Python floats are modelled as exact rationals [n, d] in lowest terms,   *)
(* so every formula is evaluated in the order the code evaluates it but    *)
(* without IEEE rounding.  Python's None is the empty tuple <<>>.          *)
(***************************************************************************)
EXTENDS Integers, Sequences, FiniteSets, TLC

(* ------------------------------ bounds --------------------------------- *)
MaxMass == 3
MaxDim == 4
MaxLinks == 2
MaxExtent == 3
MaxMoment == 2
MaxTicks == 3
MaxFiles == 2
FloatBits == 3
MaxExponent == 6
MaxBodies == 2
MaxRuns == 2
MaxVerts == 4
MaxPoints == 3

(* ------------------------------- units --------------------------------- *)
\* Masses are in grams and lengths in centimetres, so a moment of inertia is in
\* g*cm^2 = 1e-7 kg*m^2.  Every formula of the two calculators is homogeneous
\* in these units; the one absolute quantity that carries a unit of inertia is
\* the tolerance 1e-10 kg*m^2 of the mesh calculator's validity check, which is
\* 1/1000 g*cm^2, and the one that carries a unit of mass is its default mass
\* 1.0 kg = 1000 g.

(* ------------------------- exact arithmetic ---------------------------- *)
Abs(i) == IF i < 0 THEN -i ELSE i

RECURSIVE GCD(_, _)
GCD(a, b) == IF b = 0 THEN a ELSE GCD(b, a % b)

\* the rational n/d (d # 0) in lowest terms with a positive denominator
Rat(n, d) ==
    LET g == GCD(Abs(n), Abs(d))
        s == IF d < 0 THEN -1 ELSE 1
    IN  [n |-> (s * n) \div g, d |-> (s * d) \div g]

R(i) == [n |-> i, d |-> 1]
RAdd(a, b) == Rat(a.n * b.d + b.n * a.d, a.d * b.d)
RSub(a, b) == Rat(a.n * b.d - b.n * a.d, a.d * b.d)
RMul(a, b) == Rat(a.n * b.n, a.d * b.d)
RDiv(a, b) == Rat(a.n * b.d, a.d * b.n)
RLt(a, b) == a.n * b.d < b.n * a.d
RLe(a, b) == a.n * b.d <= b.n * a.d

None == <<>>

(* ------------------- calculate_inertia.py: rotation -------------------- *)
\* 3x3 matrices are tuples of rows
MatMul(A, B) ==
    [i \in 1..3 |-> [j \in 1..3 |->
        RAdd(RAdd(RMul(A[i][1], B[1][j]), RMul(A[i][2], B[2][j])),
             RMul(A[i][3], B[3][j]))]]

Transpose(A) == [i \in 1..3 |-> [j \in 1..3 |-> A[j][i]]]

Diag(v) == [i \in 1..3 |-> [j \in 1..3 |-> IF i = j THEN v[i] ELSE R(0)]]

\* Rotation.from_quat([x, y, z, w]).as_matrix(): from_quat normalises the
\* quaternion, so each entry is the homogeneous form divided by the squared norm
quat_to_rotation_matrix(quat) ==
    LET w == quat[1]
        x == quat[2]
        y == quat[3]
        z == quat[4]
        nn == w * w + x * x + y * y + z * z
    IN  << << Rat(w*w + x*x - y*y - z*z, nn), Rat(2 * (x*y - z*w), nn),
              Rat(2 * (x*z + y*w), nn) >>,
           << Rat(2 * (x*y + z*w), nn), Rat(w*w - x*x + y*y - z*z, nn),
              Rat(2 * (y*z - x*w), nn) >>,
           << Rat(2 * (x*z - y*w), nn), Rat(2 * (y*z + x*w), nn),
              Rat(w*w - x*x - y*y + z*z, nn) >> >>

\* the product without the transpose of the second factor
rotate_inertia_no_transpose(diag_inertia, quat) ==
    LET I_principal == Diag(diag_inertia)
        Rm == quat_to_rotation_matrix(quat)
    IN  MatMul(MatMul(Rm, I_principal), Rm)

rotate_inertia(diag_inertia, quat) ==
    LET I_principal == Diag(diag_inertia)
        Rm == quat_to_rotation_matrix(quat)
    IN  MatMul(MatMul(Rm, I_principal), Transpose(Rm))

\* (ixx, ixy, ixz, iyy, iyz, izz) of a 3x3 tensor
inertia_tensor_to_urdf(I) == << I[1][1], I[1][2], I[1][3], I[2][2], I[2][3], I[3][3] >>

(* ---------------- calculate_inertia.py: primitive shapes --------------- *)
\* a box formula with lx and ly exchanged in the first moment
inertia_box_swapped(mass, lx, ly, lz) ==
    << RMul(RMul(Rat(1, 12), R(mass)), R(lx * lx + lz * lz)),
       RMul(RMul(Rat(1, 12), R(mass)), R(lx * lx + lz * lz)),
       RMul(RMul(Rat(1, 12), R(mass)), R(lx * lx + ly * ly)) >>

\* a box whose third moment is taken about an edge (1/3) instead of the centre
inertia_box_edge(mass, lx, ly, lz) ==
    << RMul(RMul(Rat(1, 12), R(mass)), R(ly * ly + lz * lz)),
       RMul(RMul(Rat(1, 12), R(mass)), R(lx * lx + lz * lz)),
       RMul(RMul(Rat(1, 3), R(mass)), R(lx * lx + ly * ly)) >>

inertia_box(mass, lx, ly, lz) ==
    << RMul(RMul(Rat(1, 12), R(mass)), R(ly * ly + lz * lz)),
       RMul(RMul(Rat(1, 12), R(mass)), R(lx * lx + lz * lz)),
       RMul(RMul(Rat(1, 12), R(mass)), R(lx * lx + ly * ly)) >>

\* a cylinder whose axial moment is that of a thin hoop (the 1/2 forgotten)
inertia_cylinder_z_hoop(mass, radius, height) ==
    LET Ixx == RMul(RMul(Rat(1, 12), R(mass)), R(3 * radius * radius + height * height))
        Izz == RMul(R(mass), R(radius * radius))
    IN  << Ixx, Ixx, Izz >>

inertia_cylinder_z(mass, radius, height) ==
    LET Ixx == RMul(RMul(Rat(1, 12), R(mass)), R(3 * radius * radius + height * height))
        Izz == RMul(RMul(Rat(1, 2), R(mass)), R(radius * radius))
    IN  << Ixx, Ixx, Izz >>

\* a cylinder about Y that keeps the axial moment in the third component
inertia_cylinder_y_as_z(mass, radius, height) ==
    LET Iyy == RMul(RMul(Rat(1, 2), R(mass)), R(radius * radius))
        Ixx == RMul(RMul(Rat(1, 12), R(mass)), R(3 * radius * radius + height * height))
    IN  << Ixx, Ixx, Iyy >>

inertia_cylinder_y(mass, radius, height) ==
    LET Iyy == RMul(RMul(Rat(1, 2), R(mass)), R(radius * radius))
        Ixx == RMul(RMul(Rat(1, 12), R(mass)), R(3 * radius * radius + height * height))
    IN  << Ixx, Iyy, Ixx >>

\* the moment of a hollow sphere (2/3) instead of a solid one (2/5)
inertia_sphere_hollow(mass, radius) ==
    LET I == RMul(RMul(Rat(2, 3), R(mass)), R(radius * radius))
    IN  << I, I, I >>

\* a sphere formula that is quadratic in the mass
inertia_sphere_mass_squared(mass, radius) ==
    LET I == RMul(RMul(Rat(2, 5), R(mass * mass)), R(radius * radius))
    IN  << I, I, I >>

inertia_sphere(mass, radius) ==
    LET I == RMul(RMul(Rat(2, 5), R(mass)), R(radius * radius))
    IN  << I, I, I >>

\* validate_inertia of calculate_inertia.py with elif in place of the second
\* and third if: it stops at the first inequality found violated
validate_inertia_first_only(name, ixx, iyy, izz) ==
    LET w == IF RLt(RAdd(ixx, iyy), izz)
             THEN << [kind |-> "warning", body |-> name, pair |-> "Ixx + Iyy", third |-> "Izz"] >>
             ELSE IF RLt(RAdd(iyy, izz), ixx)
             THEN << [kind |-> "warning", body |-> name, pair |-> "Iyy + Izz", third |-> "Ixx"] >>
             ELSE IF RLt(RAdd(izz, ixx), iyy)
             THEN << [kind |-> "warning", body |-> name, pair |-> "Izz + Ixx", third |-> "Iyy"] >>
             ELSE << >>
    IN  [valid |-> w = << >>, printed |-> w]

\* validate_inertia of calculate_inertia.py: the flag and the lines it prints
\* (a line's text also carries the three numbers, formatted with %.6g)
validate_inertia(name, ixx, iyy, izz) ==
    LET w1 == IF RLt(RAdd(ixx, iyy), izz)
              THEN << [kind |-> "warning", body |-> name, pair |-> "Ixx + Iyy", third |-> "Izz"] >> ELSE << >>
        w2 == IF RLt(RAdd(iyy, izz), ixx)
              THEN << [kind |-> "warning", body |-> name, pair |-> "Iyy + Izz", third |-> "Ixx"] >> ELSE << >>
        w3 == IF RLt(RAdd(izz, ixx), iyy)
              THEN << [kind |-> "warning", body |-> name, pair |-> "Izz + Ixx", third |-> "Iyy"] >> ELSE << >>
    IN  [valid |-> (w1 \o w2 \o w3) = << >>, printed |-> w1 \o w2 \o w3]

(* ------- calculate_inertia.py: validate_inertia in binary floats ------- *)
\* The interpreter evaluates ixx + iyy in binary floating point: the exact sum
\* rounded to the nearest value with a fixed number of significant bits, ties
\* to the even significand.  The model keeps FloatBits significant bits (the
\* interpreter keeps 53) and exponents within MaxExponent of zero.
Pow2(e) == IF e >= 0 THEN R(2 ^ e) ELSE Rat(1, 2 ^ (-e))

\* the exponent e with 2^e <= a < 2^(e+1), for a > 0
Exponent(a) ==
    CHOOSE e \in (-MaxExponent)..MaxExponent :
        RLe(Pow2(e), a) /\ RLt(a, Pow2(e + 1))

\* round to nearest, ties to even
Round(x) ==
    IF x.n = 0 THEN x
    ELSE LET a == Rat(Abs(x.n), x.d)
             ulp == Pow2(Exponent(a) - FloatBits + 1)
             q == RDiv(a, ulp)
             lo == q.n \div q.d
             twice == RSub(RMul(R(2), q), R(2 * lo))
             k == IF RLt(twice, R(1)) THEN lo
                  ELSE IF RLt(R(1), twice) THEN lo + 1
                  ELSE IF lo % 2 = 0 THEN lo ELSE lo + 1
             m == RMul(R(k), ulp)
         IN  IF x.n < 0 THEN RSub(R(0), m) ELSE m

\* a value a float can hold
Representable(x) == Round(x) = x

\* the float sum a + b
float_add(a, b) == Round(RAdd(a, b))

\* validate_inertia of calculate_inertia.py with each sum rounded as the
\* interpreter rounds it; the comparisons of floats are exact
validate_inertia_float(name, ixx, iyy, izz) ==
    LET w1 == IF RLt(float_add(ixx, iyy), izz)
              THEN << [kind |-> "warning", body |-> name, pair |-> "Ixx + Iyy", third |-> "Izz"] >> ELSE << >>
        w2 == IF RLt(float_add(iyy, izz), ixx)
              THEN << [kind |-> "warning", body |-> name, pair |-> "Iyy + Izz", third |-> "Ixx"] >> ELSE << >>
        w3 == IF RLt(float_add(izz, ixx), iyy)
              THEN << [kind |-> "warning", body |-> name, pair |-> "Izz + Ixx", third |-> "Iyy"] >> ELSE << >>
    IN  [valid |-> (w1 \o w2 \o w3) = << >>, printed |-> w1 \o w2 \o w3]

(* --------------- calculate_inertia.py: calculate_inertia --------------- *)
SupportedShapes == {"box", "cylinder_z", "cylinder_y", "sphere"}

\* a dispatch whose last branch is a default instead of an error
ShapeDiag_default(mass, shape, dims) ==
    IF shape = "box" THEN inertia_box(mass, dims[1], dims[2], dims[3])
    ELSE IF shape = "cylinder_z" THEN inertia_cylinder_z(mass, dims[1], dims[2])
    ELSE IF shape = "cylinder_y" THEN inertia_cylinder_y(mass, dims[1], dims[2])
    ELSE inertia_sphere(mass, dims[1])

\* the moments of the shape branch taken, None when no branch matches
ShapeDiag(mass, shape, dims) ==
    IF shape = "box" THEN inertia_box(mass, dims[1], dims[2], dims[3])
    ELSE IF shape = "cylinder_z" THEN inertia_cylinder_z(mass, dims[1], dims[2])
    ELSE IF shape = "cylinder_y" THEN inertia_cylinder_y(mass, dims[1], dims[2])
    ELSE IF shape = "sphere" THEN inertia_sphere(mass, dims[1])
    ELSE None

\* a calculator that returns, for a link with a quaternion, the diagonal of the
\* rotated tensor in place of the primitive moments
calculate_inertia_rotated_diag(link_data) ==
    LET mass == link_data.mass
        shape == link_data.shape
        dims == link_data.dims
        diag == ShapeDiag(mass, shape, dims)
    IN  IF diag = None
        THEN [exc |-> "ValueError", val |-> None]
        ELSE IF "quat" \in DOMAIN link_data
        THEN LET I_full == rotate_inertia(diag, link_data.quat)
             IN  [exc |-> "none",
                  val |-> << I_full[1][1], I_full[2][2], I_full[3][3],
                             I_full, link_data.quat >>]
        ELSE [exc |-> "none", val |-> << diag[1], diag[2], diag[3], None, None >>]

\* the outcome of a call: exc names the exception raised ("none" for a normal
\* return) and val is the returned 5-tuple
calculate_inertia(link_data) ==
    LET mass == link_data.mass
        shape == link_data.shape
        dims == link_data.dims
        diag == ShapeDiag(mass, shape, dims)
    IN  IF diag = None
        THEN [exc |-> "ValueError", val |-> None]
        ELSE IF "quat" \in DOMAIN link_data
        THEN [exc |-> "none",
              val |-> << diag[1], diag[2], diag[3],
                         rotate_inertia(diag, link_data.quat), link_data.quat >>]
        ELSE [exc |-> "none", val |-> << diag[1], diag[2], diag[3], None, None >>]

(* --------- calculate_inertia_from_stl.py: the mesh calculator ---------- *)
\* A trimesh mesh is a library object.  The meshes of the model are the closed
\* surfaces of axis-aligned boxes: lo is the minimum corner, size the extents,
\* sign the orientation of the faces (1 outward, -1 inward, 0 a surface whose
\* signed volume integrates to zero), density the settable density (1 by
\* default).  The properties below are what trimesh computes for such a mesh.
MeshVolume(mesh) == mesh.sign * mesh.size[1] * mesh.size[2] * mesh.size[3]

MeshBounds(mesh) == << mesh.lo, [k \in 1..3 |-> mesh.lo[k] + mesh.size[k]] >>

\* centre of mass of the enclosed solid; trimesh gives the origin when the
\* volume vanishes
MeshCenterMass(mesh) ==
    IF MeshVolume(mesh) = 0
    THEN << R(0), R(0), R(0) >>
    ELSE [k \in 1..3 |-> Rat(2 * mesh.lo[k] + mesh.size[k], 2)]

\* inertia tensor about the centre of mass at the mesh's current density
MeshMomentInertia(mesh) ==
    LET a == mesh.size[1]
        b == mesh.size[2]
        c == mesh.size[3]
        dv == RMul(mesh.density, R(MeshVolume(mesh)))
    IN  Diag(<< RMul(dv, Rat(b * b + c * c, 12)),
                RMul(dv, Rat(a * a + c * c, 12)),
                RMul(dv, Rat(a * a + b * b, 12)) >>)

\* a calculator that reads the mass properties before it sets the density
compute_inertia_from_mesh_late_density(mesh, mass) ==
    LET m1 == IF MeshVolume(mesh) > 0
              THEN [mesh EXCEPT !.density = Rat(mass, MeshVolume(mesh))]
              ELSE mesh
        com0 == MeshCenterMass(mesh)
        inertia0 == MeshMomentInertia(mesh)
        bounds == MeshBounds(m1)
        size == [k \in 1..3 |-> bounds[2][k] - bounds[1][k]]
    IN  IF MeshVolume(m1) <= 0
        THEN [mesh |-> m1, exc |-> "none",
              com |-> [k \in 1..3 |-> Rat(bounds[1][k] + bounds[2][k], 2)],
              inertia |-> Diag(<<
                  RMul(RMul(Rat(1, 12), R(mass)), R(size[2] * size[2] + size[3] * size[3])),
                  RMul(RMul(Rat(1, 12), R(mass)), R(size[1] * size[1] + size[3] * size[3])),
                  RMul(RMul(Rat(1, 12), R(mass)), R(size[1] * size[1] + size[2] * size[2])) >>),
              printed |-> << [kind |-> "warning", text |-> "invalid volume"] >>]
        ELSE [mesh |-> m1, exc |-> "none", com |-> com0, inertia |-> inertia0,
              printed |-> << >>]

\* a calculator whose fallback is taken for negative volumes only
compute_inertia_from_mesh_strict(mesh, mass) ==
    LET m1 == IF MeshVolume(mesh) > 0
              THEN [mesh EXCEPT !.density = Rat(mass, MeshVolume(mesh))]
              ELSE mesh
        com0 == MeshCenterMass(m1)
        inertia0 == MeshMomentInertia(m1)
        bounds == MeshBounds(m1)
        size == [k \in 1..3 |-> bounds[2][k] - bounds[1][k]]
    IN  IF MeshVolume(m1) < 0
        THEN [mesh |-> m1, exc |-> "none",
              com |-> [k \in 1..3 |-> Rat(bounds[1][k] + bounds[2][k], 2)],
              inertia |-> Diag(<<
                  RMul(RMul(Rat(1, 12), R(mass)), R(size[2] * size[2] + size[3] * size[3])),
                  RMul(RMul(Rat(1, 12), R(mass)), R(size[1] * size[1] + size[3] * size[3])),
                  RMul(RMul(Rat(1, 12), R(mass)), R(size[1] * size[1] + size[2] * size[2])) >>),
              printed |-> << [kind |-> "warning", text |-> "invalid volume"] >>]
        ELSE [mesh |-> m1, exc |-> "none", com |-> com0, inertia |-> inertia0,
              printed |-> << >>]

\* compute_inertia_from_mesh(mesh, mass): the mesh as the call leaves it, the
\* returned (com, inertia) and the lines printed
compute_inertia_from_mesh(mesh, mass) ==
    LET m1 == IF MeshVolume(mesh) > 0
              THEN [mesh EXCEPT !.density = Rat(mass, MeshVolume(mesh))]
              ELSE mesh
        com0 == MeshCenterMass(m1)
        inertia0 == MeshMomentInertia(m1)
        bounds == MeshBounds(m1)
        size == [k \in 1..3 |-> bounds[2][k] - bounds[1][k]]
    IN  IF MeshVolume(m1) <= 0
        THEN [mesh |-> m1, exc |-> "none",
              com |-> [k \in 1..3 |-> Rat(bounds[1][k] + bounds[2][k], 2)],
              inertia |-> Diag(<<
                  RMul(RMul(Rat(1, 12), R(mass)), R(size[2] * size[2] + size[3] * size[3])),
                  RMul(RMul(Rat(1, 12), R(mass)), R(size[1] * size[1] + size[3] * size[3])),
                  RMul(RMul(Rat(1, 12), R(mass)), R(size[1] * size[1] + size[2] * size[2])) >>),
              printed |-> << [kind |-> "warning", text |-> "invalid volume"] >>]
        ELSE [mesh |-> m1, exc |-> "none", com |-> com0, inertia |-> inertia0,
              printed |-> << >>]

(* ------- calculate_inertia_from_stl.py: diagonalize_inertia ------------ *)
Col(A, j) == [k \in 1..3 |-> A[k][j]]

MatVec(A, v) ==
    [k \in 1..3 |-> RAdd(RAdd(RMul(A[k][1], v[1]), RMul(A[k][2], v[2])),
                         RMul(A[k][3], v[3]))]

Dot(u, v) == RAdd(RAdd(RMul(u[1], v[1]), RMul(u[2], v[2])), RMul(u[3], v[3]))

\* np.linalg.det of a 3x3 matrix
Det3(A) ==
    RAdd(RSub(RMul(A[1][1], RSub(RMul(A[2][2], A[3][3]), RMul(A[2][3], A[3][2]))),
              RMul(A[1][2], RSub(RMul(A[2][1], A[3][3]), RMul(A[2][3], A[3][1])))),
         RMul(A[1][3], RSub(RMul(A[2][1], A[3][2]), RMul(A[2][2], A[3][1]))))

Perms3 == { <<1, 2, 3>>, <<1, 3, 2>>, <<2, 1, 3>>, <<2, 3, 1>>, <<3, 1, 2>>, <<3, 2, 1>> }

\* A[:, p]
ColPerm(A, p) == [k \in 1..3 |-> [j \in 1..3 |-> A[k][p[j]]]]

\* A with column j multiplied by s[j]
SignCols(A, s) == [k \in 1..3 |-> [j \in 1..3 |-> RMul(R(s[j]), A[k][j])]]

\* the axes the eigenvectors of the model's tensors lie along (as quaternions)
EigQuats == { <<1, 0, 0, 0>>, <<2, 1, 0, 0>>, <<1, 1, 1, 1>>, <<1, 2, 0, -1>> }

EigBases == { ColPerm(quat_to_rotation_matrix(q), p) : q \in EigQuats, p \in Perms3 }

IsEigenvector(T, c) ==
    LET Tc == MatVec(T, c)
        lam == Dot(c, Tc)
    IN  \A k \in 1..3 : Tc[k] = RMul(lam, c[k])

EigenvaluesOf(T, B) == [j \in 1..3 |-> Dot(Col(B, j), MatVec(T, Col(B, j)))]

Ascending(w) == RLe(w[1], w[2]) /\ RLe(w[2], w[3])

\* np.linalg.eigh(T): eigenvalues in ascending order and an orthonormal matrix
\* whose column j is an eigenvector of eigenvalue j.  LAPACK fixes neither the
\* sign of a column nor the basis of a repeated eigenvalue: every admissible
\* pair is a possible result.
Eigh(T) ==
    LET bases == { B \in EigBases :
                     /\ \A j \in 1..3 : IsEigenvector(T, Col(B, j))
                     /\ Ascending(EigenvaluesOf(T, B)) }
    IN  { [w |-> EigenvaluesOf(T, B), v |-> SignCols(B, s)] :
              B \in bases, s \in [1..3 -> {-1, 1}] }

\* np.argsort of three values (insertion sort: equal values keep their order)
\* the indices that sort w in descending order
ArgSort_descending(w) ==
    LET Rank(k) == 1 + Cardinality({ j \in 1..3 : RLt(w[k], w[j]) \/ (w[j] = w[k] /\ j < k) })
    IN  [r \in 1..3 |-> CHOOSE k \in 1..3 : Rank(k) = r]

ArgSort(w) ==
    LET Rank(k) == 1 + Cardinality({ j \in 1..3 :
                        RLt(w[j], w[k]) \/ (w[j] = w[k] /\ j < k) })
    IN  [r \in 1..3 |-> CHOOSE k \in 1..3 : Rank(k) = r]

RECURSIVE LCM4(_, _)
LCM4(q, k) == IF k = 0 THEN 1
              ELSE LET l == LCM4(q, k - 1) IN (l * q[k].d) \div GCD(l, q[k].d)

\* the unit vector q/|q| of a rational 4-vector q, written as the integer vector
\* of its direction with no common factor
Normalized(q) ==
    LET l == LCM4(q, 4)
        z == [k \in 1..4 |-> q[k].n * (l \div q[k].d)]
        g == GCD(GCD(Abs(z[1]), Abs(z[2])), GCD(Abs(z[3]), Abs(z[4])))
    IN  [k \in 1..4 |-> z[k] \div g]

\* Rotation.from_matrix(M).as_quat(): scipy's choice of the largest of the three
\* diagonal entries and the trace, then the normalisation; [x, y, z, w]
FromMatrixAsQuat(M) ==
    LET tr == RAdd(RAdd(M[1][1], M[2][2]), M[3][3])
        decision == << M[1][1], M[2][2], M[3][3], tr >>
        choice == CHOOSE c \in 1..4 :
                      /\ \A e \in 1..4 : RLe(decision[e], decision[c])
                      /\ \A e \in 1..(c - 1) : decision[e] # decision[c]
        a == choice
        b == (a % 3) + 1
        c3 == (b % 3) + 1
        raw == IF choice = 4
               THEN << RSub(M[3][2], M[2][3]), RSub(M[1][3], M[3][1]),
                       RSub(M[2][1], M[1][2]), RAdd(R(1), tr) >>
               ELSE [k \in 1..4 |->
                       IF k = a THEN RAdd(RSub(R(1), tr), RMul(R(2), M[a][a]))
                       ELSE IF k = b THEN RAdd(M[b][a], M[a][b])
                       ELSE IF k = c3 THEN RAdd(M[c3][a], M[a][c3])
                       ELSE RSub(M[c3][b], M[b][c3])]
    IN  Normalized(raw)

\* lines 112-121 alone: the eigenvector matrix is used as eigh returned it
DiagonalizeFrom_no_flip(e) ==
    LET eigenvalues == e.w
        idx == ArgSort(eigenvalues)
        rotation_matrix == ColPerm(e.v, idx)
        quat_xyzw == FromMatrixAsQuat(rotation_matrix)
    IN  [principal_inertia |-> [k \in 1..3 |-> eigenvalues[idx[k]]],
         rotation_matrix |-> rotation_matrix,
         quat |-> << quat_xyzw[4], quat_xyzw[1], quat_xyzw[2], quat_xyzw[3] >>]

\* the quaternion left in scipy's [x, y, z, w] order
DiagonalizeFrom_xyzw(e) ==
    LET eigenvalues == e.w
        eigenvectors == IF RLt(Det3(e.v), R(0))
                        THEN SignCols(e.v, << -1, 1, 1 >>)
                        ELSE e.v
        idx == ArgSort(eigenvalues)
        rotation_matrix == ColPerm(eigenvectors, idx)
    IN  [principal_inertia |-> [k \in 1..3 |-> eigenvalues[idx[k]]],
         rotation_matrix |-> rotation_matrix,
         quat |-> FromMatrixAsQuat(rotation_matrix)]

\* lines 108-121 of diagonalize_inertia on one result of eigh
DiagonalizeFrom(e) ==
    LET eigenvalues == e.w
        eigenvectors == IF RLt(Det3(e.v), R(0))
                        THEN SignCols(e.v, << -1, 1, 1 >>)
                        ELSE e.v
        idx == ArgSort(eigenvalues)
        rotation_matrix == ColPerm(eigenvectors, idx)
        quat_xyzw == FromMatrixAsQuat(rotation_matrix)
    IN  [principal_inertia |-> [k \in 1..3 |-> eigenvalues[idx[k]]],
         rotation_matrix |-> rotation_matrix,
         quat |-> << quat_xyzw[4], quat_xyzw[1], quat_xyzw[2], quat_xyzw[3] >>]

\* diagonalize_inertia(inertia): the results the call can return
diagonalize_inertia(inertia) == { DiagonalizeFrom(e) : e \in Eigh(inertia) }

(* ----------- calculate_inertia_from_stl.py: validate_inertia ----------- *)
\* eps = 1e-10 (kg*m^2), in g*cm^2
eps == Rat(1, 1000)

\* validate_inertia of calculate_inertia_from_stl.py: the flag and the lines it
\* prints (a line's text also carries the three numbers, formatted with %.6g)
validate_inertia_stl(name, ixx, iyy, izz) ==
    LET w1 == IF RLt(RAdd(ixx, iyy), RSub(izz, eps))
              THEN << [kind |-> "warning", body |-> name, pair |-> "Ixx + Iyy", third |-> "Izz"] >> ELSE << >>
        w2 == IF RLt(RAdd(iyy, izz), RSub(ixx, eps))
              THEN << [kind |-> "warning", body |-> name, pair |-> "Iyy + Izz", third |-> "Ixx"] >> ELSE << >>
        w3 == IF RLt(RAdd(izz, ixx), RSub(iyy, eps))
              THEN << [kind |-> "warning", body |-> name, pair |-> "Izz + Ixx", third |-> "Iyy"] >> ELSE << >>
    IN  [valid |-> (w1 \o w2 \o w3) = << >>, printed |-> w1 \o w2 \o w3]

(* ----------- calculate_inertia_from_stl.py: process_stl_files ---------- *)
\* the default of masses.get(link_name, 1.0): 1.0 kg, in grams
DefaultMass == 1000

\* a lookup whose default is one gram
masses_get_gram(table, link_name) ==
    IF link_name \in DOMAIN table THEN table[link_name] ELSE 1

\* masses.get(link_name, 1.0); the table is a function from the link names it
\* holds to their masses
masses_get(table, link_name) ==
    IF link_name \in DOMAIN table THEN table[link_name] ELSE DefaultMass

\* a loader that rejects a mesh which is not watertight
load_stl_strict(name, file) ==
    IF ~file.readable \/ ~file.mesh.is_watertight
    THEN [exc |-> "Exception", printed |-> << >>]
    ELSE [exc |-> "none", mesh |-> file.mesh, printed |-> << >>]

\* load_stl(filepath): trimesh.load raises on a file it cannot read as a mesh;
\* otherwise the mesh is returned, after a warning when it is not watertight
load_stl(name, file) ==
    IF ~file.readable
    THEN [exc |-> "Exception", printed |-> << >>]
    ELSE [exc |-> "none", mesh |-> file.mesh,
          printed |-> IF ~file.mesh.is_watertight
                      THEN << [kind |-> "warning", file |-> name, text |-> "not watertight"] >>
                      ELSE << >>]

\* a loop body that raises when the validity check fails
ProcessStlFile_raise_invalid(link_name, file, table) ==
    LET mass == masses_get(table, link_name)
        head == << [kind |-> "processing", name |-> link_name] >>
                \o (IF link_name \notin DOMAIN table
                    THEN << [kind |-> "warning", body |-> link_name,
                             text |-> "mass not found, default 1.0kg"] >>
                    ELSE << >>)
        l == load_stl(link_name, file)
    IN  IF l.exc # "none"
        THEN { [exc |-> l.exc, printed |-> head \o l.printed] }
        ELSE LET c == compute_inertia_from_mesh(l.mesh, mass)
             IN  { LET p == d.principal_inertia
                       v == validate_inertia_stl(link_name, p[1], p[2], p[3])
                   IN  IF ~v.valid THEN [exc |-> "ValueError", printed |-> head \o l.printed] ELSE
                       [exc |-> "none",
                        entry |-> [name |-> link_name, mass |-> mass, com |-> c.com,
                                   inertia_full |-> c.inertia,
                                   principal_inertia |-> p,
                                   rotation_matrix |-> d.rotation_matrix,
                                   quat |-> d.quat],
                        printed |-> head \o l.printed \o c.printed \o v.printed
                                    \o << [kind |-> "body", name |-> link_name, mass |-> mass,
                                           com |-> c.com, principal_inertia |-> p] >>]
                   : d \in diagonalize_inertia(c.inertia) }

\* the body of the loop of process_stl_files (lines 162-196) on one file: the
\* outcomes it can have, each with the exception that leaves the loop ("none"
\* when the body ends), the entry stored in results and the lines printed
ProcessStlFile(link_name, file, table) ==
    LET mass == masses_get(table, link_name)
        head == << [kind |-> "processing", name |-> link_name] >>
                \o (IF link_name \notin DOMAIN table
                    THEN << [kind |-> "warning", body |-> link_name,
                             text |-> "mass not found, default 1.0kg"] >>
                    ELSE << >>)
        l == load_stl(link_name, file)
    IN  IF l.exc # "none"
        THEN { [exc |-> l.exc, printed |-> head \o l.printed] }
        ELSE LET c == compute_inertia_from_mesh(l.mesh, mass)
             IN  { LET p == d.principal_inertia
                       v == validate_inertia_stl(link_name, p[1], p[2], p[3])
                   IN  [exc |-> "none",
                        entry |-> [name |-> link_name, mass |-> mass, com |-> c.com,
                                   inertia_full |-> c.inertia,
                                   principal_inertia |-> p,
                                   rotation_matrix |-> d.rotation_matrix,
                                   quat |-> d.quat],
                        printed |-> head \o l.printed \o c.printed \o v.printed
                                    \o << [kind |-> "body", name |-> link_name, mass |-> mass,
                                           com |-> c.com, principal_inertia |-> p] >>]
                   : d \in diagonalize_inertia(c.inertia) }

\* inertia_to_urdf(inertia): (ixx, ixy, ixz, iyy, iyz, izz)
inertia_to_urdf(inertia) ==
    << inertia[1][1], inertia[1][2], inertia[1][3],
       inertia[2][2], inertia[2][3], inertia[3][3] >>

\* quat_identity of output_xml_format.  quat is the direction of a unit
\* quaternion u; |u[k]| <= 1e-4 for the vector part k reads
\* quat[k]^2 * 1e8 <= |quat|^2, and it leaves 1 - |u[w]| below 3e-8, within the
\* 1.1e-4 np.allclose grants the scalar part; the second np.allclose implies
\* the first.
QuatIdentity(quat) ==
    LET nn == quat[1] * quat[1] + quat[2] * quat[2] + quat[3] * quat[3] + quat[4] * quat[4]
    IN  \A k \in 2..4 : quat[k] * quat[k] * 100000000 <= nn

XmlBlock(data) ==
    IF QuatIdentity(data.quat)
    THEN [kind |-> "xml", name |-> data.name, pos |-> data.com, mass |-> data.mass,
          diaginertia |-> data.principal_inertia]
    ELSE [kind |-> "xml", name |-> data.name, pos |-> data.com, quat |-> data.quat,
          mass |-> data.mass, diaginertia |-> data.principal_inertia]

\* output_xml_format(results): the lines printed
output_xml_format(res) ==
    << [kind |-> "header", text |-> "MuJoCo XML"] >>
    \o [n \in 1..Len(res) |-> XmlBlock(res[n])]

\* output_urdf_format(results): the lines printed
output_urdf_format(res) ==
    << [kind |-> "header", text |-> "URDF"] >>
    \o [n \in 1..Len(res) |->
           [kind |-> "urdf", name |-> res[n].name, xyz |-> res[n].com,
            mass |-> res[n].mass, inertia |-> inertia_to_urdf(res[n].inertia_full)]]

\* output_python_dict(results): the lines printed
output_python_dict(res) ==
    << [kind |-> "header", text |-> "Python dict"],
       [kind |-> "header", text |-> "inertia_data = {"] >>
    \o [n \in 1..Len(res) |->
           [kind |-> "python", name |-> res[n].name, mass |-> res[n].mass,
            com |-> res[n].com, diaginertia |-> res[n].principal_inertia,
            quat |-> res[n].quat,
            urdf_inertia |-> inertia_to_urdf(res[n].inertia_full)]]
    \o << [kind |-> "header", text |-> "}"] >>

(* ------------------------------ inputs --------------------------------- *)
\* the meshes handed to the mesh calculator, at trimesh's default density
Meshes ==
    [lo : {<<0, 0, 0>>, <<-1, 0, 1>>}, size : [1..3 -> 0..MaxExtent],
     sign : {-1, 0, 1}, is_watertight : BOOLEAN, density : {R(1)}]

\* shape tags: the four the code knows and one it does not
ShapeTags == SupportedShapes \cup {"cone"}

DimsLen(shape) ==
    IF shape = "box" THEN 3
    ELSE IF shape \in {"cylinder_z", "cylinder_y"} THEN 2
    ELSE 1

Quats == { <<2, 1, 0, 0>> }

\* link records as in all_links: "quat" is an optional key
LinkData(maxMass, maxDim) ==
    LET plain == UNION { [mass : 1..maxMass, shape : {s},
                          dims : [1..DimsLen(s) -> 1..maxDim],
                          com : {<<0, 0, 0>>}] : s \in ShapeTags }
    IN  plain \cup { [mass |-> p.mass, shape |-> p.shape, dims |-> p.dims,
                      com |-> p.com, quat |-> q] : p \in plain, q \in Quats }

\* the records a batch table is drawn from, shaped like the entries of all_links
AllLinksPool ==
    { [mass |-> 1, shape |-> "box", dims |-> <<1, 2, 1>>, com |-> <<0, 0, 0>>],
      [mass |-> 1, shape |-> "box", dims |-> <<1, 2, 1>>, com |-> <<0, 0, 0>>,
       quat |-> <<2, 1, 0, 0>>],
      [mass |-> 1, shape |-> "cylinder_z", dims |-> <<1, 2>>, com |-> <<0, 0, 0>>],
      [mass |-> 1, shape |-> "cylinder_y", dims |-> <<1, 2>>, com |-> <<0, 0, 0>>],
      [mass |-> 1, shape |-> "sphere", dims |-> <<1>>, com |-> <<0, 0, 0>>],
      [mass |-> 1, shape |-> "cone", dims |-> <<1>>, com |-> <<0, 0, 0>>],
      [mass |-> -1, shape |-> "box", dims |-> <<1, 2, 1>>, com |-> <<0, 0, 0>>] }

\* the files a meshes directory is drawn from: a watertight box, the same box
\* with a surface that is not watertight, and a file trimesh cannot read
StlFilePool ==
    { [readable |-> TRUE,
       mesh |-> [lo |-> <<0, 0, 0>>, size |-> <<3, 2, 1>>, sign |-> 1,
                 is_watertight |-> TRUE, density |-> R(1)]],
      [readable |-> TRUE,
       mesh |-> [lo |-> <<0, 0, 0>>, size |-> <<3, 2, 1>>, sign |-> 1,
                 is_watertight |-> FALSE, density |-> R(1)]],
      [readable |-> FALSE] }

\* masses of a table, in grams (0.15 kg and a negative entry)
TableMasses == { 150, -150 }

\* the mass tables over the link names 1..n
StlTables(n) == UNION { [S -> TableMasses] : S \in SUBSET (1..n) }

(* ------------------------------- state --------------------------------- *)
VARIABLES
    link_data,      \* one link record handed to calculate_inertia
    ret,            \* outcome of calculate_inertia(link_data)
    ret_double,     \* outcome of calculate_inertia on the same link with twice the mass
    vres,           \* outcome of validate_inertia on the moments of ret
    all_links,      \* main: the table, in insertion order; entry k is named k
    pc,             \* main: position in the script
    cursor,         \* main: index of the entry the current loop is at
    results,        \* main: the results dict, in insertion order
    all_valid,      \* main: the all_valid flag
    stdout,         \* main: what has been printed
    exc,            \* main: the exception that ended the script, "none" otherwise
    mesh,           \* the mesh object handed to compute_inertia_from_mesh
    target_mass,    \* the mass handed to compute_inertia_from_mesh
    mret,           \* outcome of compute_inertia_from_mesh(mesh, target_mass)
    mret_double,    \* outcome of a second call on the same mesh with twice the mass
    fr_moments,     \* frame converter: the principal moments handed to rotate_inertia
    fr_quat,        \* frame converter: the quaternion [w, x, y, z] handed to rotate_inertia
    fr_tensor,      \* frame converter: rotate_inertia(fr_moments, fr_quat)
    fr_diag,        \* frame converter: what diagonalize_inertia(fr_tensor) returned
    fr_back,        \* frame converter: rotate_inertia of the moments and quaternion of fr_diag
    v_in,           \* validators: the moments (ixx, iyy, izz) handed to both
    v_prim,         \* validators: outcome of validate_inertia of calculate_inertia.py
    v_stl,          \* validators: outcome of validate_inertia of calculate_inertia_from_stl.py
    v_float,        \* validators: outcome of validate_inertia of calculate_inertia.py on floats
    stl_files,      \* process_stl_files: the sorted .stl files of the directory
    masses,         \* process_stl_files: the mass table
    p_kind,         \* patcher: "xml" for process_xml_file, "urdf" for process_urdf_file
    p_file,         \* patcher: the text of the file on disk
    p_content,      \* patcher: the text held by the running process_*_file
    p_cursor,       \* patcher: position of the loop in INERTIA_DATA
    p_total,        \* patcher: total_updates
    p_counts,       \* patcher: the count returned for each link of this run
    p_last,         \* patcher: the last call of update_*_inertia and what it returned
    p_runs,         \* patcher: what each completed run wrote and counted
    p_stdout,       \* patcher: what has been printed
    p_pc,           \* patcher: position of the script
    usd_env,        \* converter: what the file system and the host runtime will answer
    usd_pc,         \* converter: the next step of the script
    usd_trace,      \* converter: the steps executed so far
    usd_dirs,       \* converter: the directories created
    usd_files,      \* converter: the files written
    usd_stdout,     \* converter: what has been printed
    usd_status,     \* converter: << >> while the process runs, then its exit status
    h_in,           \* hull: the arguments of get_convex_hull_points
    h_pc,           \* hull: the next step of get_convex_hull_points
    h_unique,       \* hull: unique_verts
    h_bottom,       \* hull: bottom_verts
    h_hull,         \* hull: hull_verts, sorted by angle
    h_sampled,      \* hull: sampled_points
    h_snapped,      \* hull: snapped, before and after the removal of duplicates
    h_result        \* hull: the returned list, or the exception raised

primVars == << link_data, ret, ret_double, vres >>
mainVars == << all_links, pc, cursor, results, all_valid, stdout, exc >>
meshVars == << mesh, target_mass, mret, mret_double >>
frameVars == << fr_moments, fr_quat, fr_tensor, fr_diag, fr_back >>
valVars == << v_in, v_prim, v_stl, v_float >>
stlVars == << stl_files, masses >>
patchVars == << p_kind, p_file, p_content, p_cursor, p_total, p_counts, p_last, p_runs, p_stdout, p_pc >>
usdVars == << usd_env, usd_pc, usd_trace, usd_dirs, usd_files, usd_stdout, usd_status >>
hullVars == << h_in, h_pc, h_unique, h_bottom, h_hull, h_sampled, h_snapped, h_result >>
toolVars == << patchVars, usdVars, hullVars >>
vars == << link_data, ret, ret_double, vres,
           all_links, pc, cursor, results, all_valid, stdout, exc,
           mesh, target_mass, mret, mret_double,
           fr_moments, fr_quat, fr_tensor, fr_diag, fr_back,
           v_in, v_prim, v_stl, v_float, stl_files, masses,
           p_kind, p_file, p_content, p_cursor, p_total, p_counts, p_last, p_runs, p_stdout, p_pc,
           usd_env, usd_pc, usd_trace, usd_dirs, usd_files, usd_stdout, usd_status,
           h_in, h_pc, h_unique, h_bottom, h_hull, h_sampled, h_snapped, h_result >>

Pending == [exc |-> "pending", val |-> None]
NotValidated == [called |-> FALSE, valid |-> FALSE, printed |-> << >>]

PrimIdle ==
    /\ link_data = None
    /\ ret = Pending
    /\ ret_double = Pending
    /\ vres = NotValidated

MeshPending == [exc |-> "pending", com |-> None, inertia |-> None]

MeshIdle ==
    /\ mesh = None
    /\ target_mass = 0
    /\ mret = MeshPending
    /\ mret_double = MeshPending

MainIdle ==
    /\ all_links = << >>
    /\ pc = "idle"
    /\ cursor = 0
    /\ results = << >>
    /\ all_valid = TRUE
    /\ stdout = << >>
    /\ exc = "none"

NotDiagonalized ==
    [called |-> FALSE, principal_inertia |-> None, rotation_matrix |-> None, quat |-> None]

FrameIdle ==
    /\ fr_moments = None
    /\ fr_quat = None
    /\ fr_tensor = None
    /\ fr_diag = NotDiagonalized
    /\ fr_back = None

ValIdle ==
    /\ v_in = None
    /\ v_prim = NotValidated
    /\ v_stl = NotValidated
    /\ v_float = NotValidated

StlIdle ==
    /\ stl_files = << >>
    /\ masses = << >>

PatchIdle ==
    /\ p_kind = "none"
    /\ p_file = << >>
    /\ p_content = << >>
    /\ p_cursor = 0
    /\ p_total = 0
    /\ p_counts = << >>
    /\ p_last = [called |-> FALSE]
    /\ p_runs = << >>
    /\ p_stdout = << >>
    /\ p_pc = "idle"

UsdIdle ==
    /\ usd_env = None
    /\ usd_pc = "idle"
    /\ usd_trace = << >>
    /\ usd_dirs = {}
    /\ usd_files = {}
    /\ usd_stdout = << >>
    /\ usd_status = << >>

HullIdle ==
    /\ h_in = None
    /\ h_pc = "idle"
    /\ h_unique = << >>
    /\ h_bottom = << >>
    /\ h_hull = << >>
    /\ h_sampled = << >>
    /\ h_snapped = << >>
    /\ h_result = [exc |-> "pending"]

ToolIdle == PatchIdle /\ UsdIdle /\ HullIdle

(* ------------- single calls of the primitive-shape calculator ---------- *)
PrimInit ==
    /\ link_data \in LinkData(MaxMass, MaxDim)
    /\ ret = Pending
    /\ ret_double = Pending
    /\ vres = NotValidated
    /\ MainIdle
    /\ MeshIdle
    /\ FrameIdle
    /\ ValIdle
    /\ StlIdle
    /\ ToolIdle

Calculate ==
    /\ ret = Pending
    /\ ret' = calculate_inertia(link_data)
    /\ UNCHANGED << link_data, ret_double, vres, mainVars, meshVars, frameVars, valVars, stlVars, toolVars >>

CalculateDoubled ==
    /\ ret_double = Pending
    /\ ret_double' = calculate_inertia([link_data EXCEPT !.mass = 2 * @])
    /\ UNCHANGED << link_data, ret, vres, mainVars, meshVars, frameVars, valVars, stlVars, toolVars >>

Validate ==
    /\ ret.exc = "none"
    /\ vres = NotValidated
    /\ vres' = [called |-> TRUE] @@ validate_inertia("link", ret.val[1], ret.val[2], ret.val[3])
    /\ UNCHANGED << link_data, ret, ret_double, mainVars, meshVars, frameVars, valVars, stlVars, toolVars >>

PrimNext == Calculate \/ CalculateDoubled \/ Validate

Spec == PrimInit /\ [][PrimNext]_vars

(* -------------------- calculate_inertia.py: main ----------------------- *)
MainInit ==
    /\ PrimIdle
    /\ MeshIdle
    /\ FrameIdle
    /\ ValIdle
    /\ StlIdle
    /\ ToolIdle
    /\ all_links \in UNION { [1..n -> AllLinksPool] : n \in 1..MaxLinks }
    /\ pc = "loop"
    /\ cursor = 1
    /\ results = << >>
    /\ all_valid = TRUE
    /\ stdout = << >>
    /\ exc = "none"

\* one iteration of the loop over all_links.items(); an exception raised by
\* calculate_inertia is not caught anywhere and ends the script
MainLoop ==
    /\ pc = "loop"
    /\ cursor <= Len(all_links)
    /\ LET data == all_links[cursor]
           r == calculate_inertia(data)
       IN  IF r.exc # "none"
           THEN /\ exc' = r.exc
                /\ pc' = "aborted"
                /\ UNCHANGED << cursor, results, all_valid, stdout >>
           ELSE LET v == validate_inertia(cursor, r.val[1], r.val[2], r.val[3])
                IN  /\ stdout' = stdout \o v.printed
                    /\ all_valid' = (all_valid /\ v.valid)
                    /\ results' = Append(results,
                           [name |-> cursor, mass |-> data.mass, com |-> data.com,
                            diag_inertia |-> << r.val[1], r.val[2], r.val[3] >>,
                            full_inertia |-> r.val[4], quat |-> r.val[5]])
                    /\ cursor' = cursor + 1
                    /\ UNCHANGED << pc, exc >>
    /\ UNCHANGED << all_links, primVars, meshVars, frameVars, valVars, stlVars, toolVars >>

\* after the loop: the line that sums up the validation
MainSummary ==
    /\ pc = "loop"
    /\ cursor > Len(all_links)
    /\ stdout' = Append(stdout, [kind |-> "summary", all_valid |-> all_valid])
    /\ pc' = "urdf"
    /\ cursor' = 1
    /\ UNCHANGED << all_links, results, all_valid, exc, primVars, meshVars, frameVars, valVars, stlVars, toolVars >>

\* the <inertial> block of one entry of results, URDF convention (the numbers
\* are printed with %.6g; the commented-out "method B" lines are left out)
UrdfBlock(data) ==
    IF data.full_inertia # None
    THEN [kind |-> "urdf", name |-> data.name, xyz |-> data.com, mass |-> data.mass,
          inertia |-> inertia_tensor_to_urdf(data.full_inertia)]
    ELSE [kind |-> "urdf", name |-> data.name, xyz |-> data.com, mass |-> data.mass,
          inertia |-> << data.diag_inertia[1], R(0), R(0),
                         data.diag_inertia[2], R(0), data.diag_inertia[3] >>]

MainUrdf ==
    /\ pc = "urdf"
    /\ IF cursor <= Len(results)
       THEN /\ stdout' = Append(stdout, UrdfBlock(results[cursor]))
            /\ cursor' = cursor + 1
            /\ pc' = pc
       ELSE /\ pc' = "mujoco"
            /\ cursor' = 1
            /\ stdout' = stdout
    /\ UNCHANGED << all_links, results, all_valid, exc, primVars, meshVars, frameVars, valVars, stlVars, toolVars >>

\* the <inertial> element of one entry of results, MuJoCo convention
MujocoBlock(data) ==
    [kind |-> "mujoco", name |-> data.name, pos |-> data.com, quat |-> data.quat,
     mass |-> data.mass, diaginertia |-> data.diag_inertia]

MainMujoco ==
    /\ pc = "mujoco"
    /\ IF cursor <= Len(results)
       THEN /\ stdout' = Append(stdout, MujocoBlock(results[cursor]))
            /\ cursor' = cursor + 1
            /\ pc' = pc
       ELSE /\ pc' = "done"
            /\ cursor' = cursor
            /\ stdout' = stdout
    /\ UNCHANGED << all_links, results, all_valid, exc, primVars, meshVars, frameVars, valVars, stlVars, toolVars >>

MainNext == MainLoop \/ MainSummary \/ MainUrdf \/ MainMujoco

SpecMain == MainInit /\ [][MainNext]_vars

(* ------ calculate_inertia_from_stl.py: calls of the mesh calculator ---- *)
MeshInit ==
    /\ PrimIdle
    /\ MainIdle
    /\ FrameIdle
    /\ ValIdle
    /\ StlIdle
    /\ ToolIdle
    /\ mesh \in Meshes
    /\ target_mass \in 1..MaxMass
    /\ mret = MeshPending
    /\ mret_double = MeshPending

ComputeFromMesh ==
    /\ mret = MeshPending
    /\ LET r == compute_inertia_from_mesh(mesh, target_mass)
       IN  /\ mesh' = r.mesh
           /\ mret' = [exc |-> r.exc, com |-> r.com, inertia |-> r.inertia]
           /\ stdout' = stdout \o r.printed
    /\ UNCHANGED << target_mass, mret_double, primVars,
                    all_links, pc, cursor, results, all_valid, exc,
                    frameVars, valVars, stlVars, toolVars >>

ComputeFromMeshDoubled ==
    /\ mret # MeshPending
    /\ mret_double = MeshPending
    /\ LET r == compute_inertia_from_mesh(mesh, 2 * target_mass)
       IN  /\ mesh' = r.mesh
           /\ mret_double' = [exc |-> r.exc, com |-> r.com, inertia |-> r.inertia]
           /\ stdout' = stdout \o r.printed
    /\ UNCHANGED << target_mass, mret, primVars,
                    all_links, pc, cursor, results, all_valid, exc,
                    frameVars, valVars, stlVars, toolVars >>

MeshNext == ComputeFromMesh \/ ComputeFromMeshDoubled

SpecMesh == MeshInit /\ [][MeshNext]_vars

(* ------------- the frame converter: recompose and diagonalize ---------- *)
FrameQuats == EigQuats
FrameMoments == { << R(a), R(b), R(c) >> : a, b, c \in (-1)..MaxMoment }

FrameInit ==
    /\ PrimIdle
    /\ MainIdle
    /\ MeshIdle
    /\ ValIdle
    /\ StlIdle
    /\ ToolIdle
    /\ fr_moments \in FrameMoments
    /\ fr_quat \in FrameQuats
    /\ fr_tensor = None
    /\ fr_diag = NotDiagonalized
    /\ fr_back = None

Rotate ==
    /\ fr_tensor = None
    /\ fr_tensor' = rotate_inertia(fr_moments, fr_quat)
    /\ UNCHANGED << fr_moments, fr_quat, fr_diag, fr_back,
                    primVars, mainVars, meshVars, valVars, stlVars, toolVars >>

Diagonalize ==
    /\ fr_tensor # None
    /\ ~fr_diag.called
    /\ \E o \in diagonalize_inertia(fr_tensor) :
           fr_diag' = [called |-> TRUE] @@ o
    /\ UNCHANGED << fr_moments, fr_quat, fr_tensor, fr_back,
                    primVars, mainVars, meshVars, valVars, stlVars, toolVars >>

Recompose ==
    /\ fr_diag.called
    /\ fr_back = None
    /\ fr_back' = rotate_inertia(fr_diag.principal_inertia, fr_diag.quat)
    /\ UNCHANGED << fr_moments, fr_quat, fr_tensor, fr_diag,
                    primVars, mainVars, meshVars, valVars, stlVars, toolVars >>

FrameNext == Rotate \/ Diagonalize \/ Recompose

SpecFrame == FrameInit /\ [][FrameNext]_vars

(* ------------------- calls of the two validity checks ------------------ *)
\* moments handed to the checks: small integers, values that exceed 2 by a
\* multiple of half the tolerance, and a negative value below the last
\* significant bit of 1
ValMoments ==
    { R(a) : a \in (-1)..3 }
        \cup { RAdd(R(2), RMul(Rat(t, 2), eps)) : t \in 1..MaxTicks }
        \cup { Rat(-1, 2 ^ (FloatBits + 2)) }
ValNames == { "left_foot", "right_foot" }

ValInit ==
    /\ PrimIdle
    /\ MainIdle
    /\ MeshIdle
    /\ FrameIdle
    /\ StlIdle
    /\ ToolIdle
    /\ v_in \in [name : ValNames, ixx : ValMoments, iyy : ValMoments, izz : ValMoments]
    /\ v_prim = NotValidated
    /\ v_stl = NotValidated
    /\ v_float = NotValidated

ValidatePrim ==
    /\ ~v_prim.called
    /\ v_prim' = [called |-> TRUE] @@ validate_inertia(v_in.name, v_in.ixx, v_in.iyy, v_in.izz)
    /\ UNCHANGED << v_in, v_stl, v_float, primVars, mainVars, meshVars, frameVars, stlVars, toolVars >>

ValidateStl ==
    /\ ~v_stl.called
    /\ v_stl' = [called |-> TRUE] @@ validate_inertia_stl(v_in.name, v_in.ixx, v_in.iyy, v_in.izz)
    /\ UNCHANGED << v_in, v_prim, v_float, primVars, mainVars, meshVars, frameVars, stlVars, toolVars >>

\* the call as the interpreter evaluates it, on moments that floats can hold
ValidatePrimFloat ==
    /\ ~v_float.called
    /\ \A x \in { v_in.ixx, v_in.iyy, v_in.izz } : Representable(x)
    /\ v_float' = [called |-> TRUE] @@ validate_inertia_float(v_in.name, v_in.ixx, v_in.iyy, v_in.izz)
    /\ UNCHANGED << v_in, v_prim, v_stl, primVars, mainVars, meshVars, frameVars, stlVars, toolVars >>

ValNext == ValidatePrim \/ ValidateStl \/ ValidatePrimFloat

SpecValidate == ValInit /\ [][ValNext]_vars

(* ------------- calculate_inertia_from_stl.py: main --------------------- *)
\* the state when main calls process_stl_files(meshes_dir, LINK_MASSES): the
\* sorted .stl files of the directory, file k holding the link named k
StlInit ==
    /\ PrimIdle
    /\ MeshIdle
    /\ FrameIdle
    /\ ValIdle
    /\ ToolIdle
    /\ all_links = << >>
    /\ all_valid = TRUE
    /\ stl_files \in UNION { [1..n -> StlFilePool] : n \in 1..MaxFiles }
    /\ masses \in StlTables(Len(stl_files))
    /\ pc = "stl_loop"
    /\ cursor = 1
    /\ results = << >>
    /\ stdout = << [kind |-> "header", text |-> "STL mesh inertia"] >>
    /\ exc = "none"

\* one iteration of the loop over stl_files; nothing catches an exception
\* raised in the body, which ends process_stl_files and the script
StlLoop ==
    /\ pc = "stl_loop"
    /\ cursor <= Len(stl_files)
    /\ \E o \in ProcessStlFile(cursor, stl_files[cursor], masses) :
           /\ stdout' = stdout \o o.printed
           /\ IF o.exc # "none"
              THEN /\ exc' = o.exc
                   /\ pc' = "aborted"
                   /\ UNCHANGED << cursor, results >>
              ELSE /\ results' = Append(results, o.entry)
                   /\ cursor' = cursor + 1
                   /\ UNCHANGED << pc, exc >>
    /\ UNCHANGED << all_links, all_valid, stlVars, toolVars, primVars, meshVars, frameVars, valVars >>

\* process_stl_files returns results and main calls output_xml_format
OutputXml ==
    /\ pc = "stl_loop"
    /\ cursor > Len(stl_files)
    /\ stdout' = stdout \o output_xml_format(results)
    /\ pc' = "stl_urdf"
    /\ UNCHANGED << all_links, cursor, results, all_valid, exc,
                    stlVars, toolVars, primVars, meshVars, frameVars, valVars >>

OutputUrdf ==
    /\ pc = "stl_urdf"
    /\ stdout' = stdout \o output_urdf_format(results)
    /\ pc' = "python"
    /\ UNCHANGED << all_links, cursor, results, all_valid, exc,
                    stlVars, toolVars, primVars, meshVars, frameVars, valVars >>

\* output_python_dict, then the closing banner of main
OutputPythonDict ==
    /\ pc = "python"
    /\ stdout' = stdout \o output_python_dict(results)
                        \o << [kind |-> "header", text |-> "done"] >>
    /\ pc' = "done"
    /\ UNCHANGED << all_links, cursor, results, all_valid, exc,
                    stlVars, toolVars, primVars, meshVars, frameVars, valVars >>

StlNext == StlLoop \/ OutputXml \/ OutputUrdf \/ OutputPythonDict

SpecStl == StlInit /\ [][StlNext]_vars

\* either script, run on its table or directory
BatchesInit == MainInit \/ StlInit

BatchesNext == MainNext \/ StlNext

SpecBatches == BatchesInit /\ [][BatchesNext]_vars

(* ======================= primitive-shape formulas ====================== *)
Returned == ret.exc = "none"
Moments(r) == << r.val[1], r.val[2], r.val[3] >>
Sq(i) == i * i

\* C1: inertia_box(m, lx, ly, lz) returns (Ixx, Iyy, Izz) with
\* 12*Ixx = m*(ly^2+lz^2), 12*Iyy = m*(lx^2+lz^2), 12*Izz = m*(lx^2+ly^2);
\* m = 1 with dims (2,2,2) gives 8/12 for each.
C1_BoxFormula ==
    (Returned /\ link_data.shape = "box") =>
        LET m == link_data.mass
            lx == link_data.dims[1]
            ly == link_data.dims[2]
            lz == link_data.dims[3]
        IN  /\ ret.val[1].n * 12 = m * (Sq(ly) + Sq(lz)) * ret.val[1].d
            /\ ret.val[2].n * 12 = m * (Sq(lx) + Sq(lz)) * ret.val[2].d
            /\ ret.val[3].n * 12 = m * (Sq(lx) + Sq(ly)) * ret.val[3].d
            /\ (m = 1 /\ link_data.dims = <<2, 2, 2>>) =>
                   Moments(ret) = << Rat(8, 12), Rat(8, 12), Rat(8, 12) >>

C1_Witness ==
    /\ Returned
    /\ link_data.shape = "box"
    /\ link_data.mass = 1
    /\ link_data.dims = <<2, 2, 2>>
    /\ ret.val[1] = [n |-> 2, d |-> 3]

\* C2: inertia_cylinder_z(m, r, h) returns (Ixx, Iyy, Izz) with Ixx = Iyy,
\* 12*Ixx = m*(3*r^2+h^2) and 2*Izz = m*r^2.
C2_CylinderZFormula ==
    (Returned /\ link_data.shape = "cylinder_z") =>
        LET m == link_data.mass
            r == link_data.dims[1]
            h == link_data.dims[2]
        IN  /\ ret.val[1] = ret.val[2]
            /\ ret.val[1].n * 12 = m * (3 * Sq(r) + Sq(h)) * ret.val[1].d
            /\ ret.val[3].n * 2 = m * Sq(r) * ret.val[3].d

C2_Witness ==
    /\ Returned
    /\ link_data.shape = "cylinder_z"
    /\ link_data.dims = <<1, 2>>
    /\ ret.val[3] # ret.val[1]

\* C3: inertia_cylinder_y(m, r, h) is inertia_cylinder_z(m, r, h) with its second
\* and third components exchanged: Iyy = m*r^2/2 and Ixx = Izz = m*(3*r^2+h^2)/12.
C3_CylinderYSwapsZ ==
    (Returned /\ link_data.shape = "cylinder_y") =>
        LET m == link_data.mass
            r == link_data.dims[1]
            h == link_data.dims[2]
            z == inertia_cylinder_z(m, r, h)
        IN  /\ Moments(ret) = << z[1], z[3], z[2] >>
            /\ ret.val[2].n * 2 = m * Sq(r) * ret.val[2].d
            /\ ret.val[1] = ret.val[3]
            /\ ret.val[1].n * 12 = m * (3 * Sq(r) + Sq(h)) * ret.val[1].d

C3_Witness ==
    /\ Returned
    /\ link_data.shape = "cylinder_y"
    /\ link_data.dims = <<2, 1>>
    /\ ret.val[2] # ret.val[3]

\* C4: inertia_sphere(m, r) returns three equal moments I with 5*I = 2*m*r^2;
\* m = 1, r = 1 gives 2/5 for each.
C4_SphereFormula ==
    (Returned /\ link_data.shape = "sphere") =>
        LET m == link_data.mass
            r == link_data.dims[1]
        IN  /\ ret.val[1] = ret.val[2]
            /\ ret.val[2] = ret.val[3]
            /\ ret.val[1].n * 5 = 2 * m * Sq(r) * ret.val[1].d
            /\ (m = 1 /\ r = 1) => ret.val[1] = [n |-> 2, d |-> 5]

C4_Witness ==
    /\ Returned
    /\ link_data.shape = "sphere"
    /\ link_data.mass = 1
    /\ link_data.dims = <<1>>
    /\ ret.val[3] = [n |-> 2, d |-> 5]

\* C5: calculate_inertia dispatches on the shape tag: box, cylinder_z, cylinder_y
\* and sphere each use their own formula with the link's mass and dims, and every
\* other tag ends in a ValueError with no result returned.
C5_Dispatch ==
    (ret # Pending) =>
        LET m == link_data.mass
            d == link_data.dims
            s == link_data.shape
        IN  /\ s = "box" => Returned /\ Moments(ret) = inertia_box(m, d[1], d[2], d[3])
            /\ s = "cylinder_z" => Returned /\ Moments(ret) = inertia_cylinder_z(m, d[1], d[2])
            /\ s = "cylinder_y" => Returned /\ Moments(ret) = inertia_cylinder_y(m, d[1], d[2])
            /\ s = "sphere" => Returned /\ Moments(ret) = inertia_sphere(m, d[1])
            /\ s \notin SupportedShapes => ret.exc = "ValueError" /\ ret.val = None

C5_Witness ==
    /\ link_data.shape = "cone"
    /\ ret.exc = "ValueError"
    /\ ret.val = None

C8_MassDoubling ==
    (Returned /\ ret_double.exc = "none") =>
        \A k \in 1..3 : ret_double.val[k] = RMul(R(2), ret.val[k])

C8_Witness ==
    /\ Returned
    /\ ret_double.exc = "none"
    /\ link_data.shape = "sphere"
    /\ ret_double.val[1] # ret.val[1]

(* ============================ batch of main ============================ *)
Terminated == pc \in {"done", "aborted"}
Recorded(k) == \E n \in 1..Len(results) : results[n].name = k
Emitted(k, kind) ==
    \E n \in 1..Len(stdout) : stdout[n].kind = kind /\ stdout[n].name = k

\* C6: in the batch of main a link with an unsupported shape tag fails only that
\* link: every other link is still computed, recorded in results and emitted in
\* the URDF and the MuJoCo output.
C6_UnsupportedFailsOnlyThatLink ==
    Terminated =>
        \A k \in 1..Len(all_links) :
            all_links[k].shape \in SupportedShapes =>
                Recorded(k) /\ Emitted(k, "urdf") /\ Emitted(k, "mujoco")

(* ============================ mesh calculator ========================== *)
BoxCentre(m) == [k \in 1..3 |-> Rat(2 * m.lo[k] + m.size[k], 2)]
Warned == \E n \in 1..Len(stdout) : stdout[n].kind = "warning"

\* C9: on a mesh whose volume is <= 0 compute_inertia_from_mesh does not fail: it
\* returns the centre of the bounding box and the diagonal tensor of the box
\* formula applied to the bounding-box extents and the target mass (extents
\* (2,2,2) and mass 1 give diag(8/12, 8/12, 8/12)), and prints a warning.
C9_DegenerateFallback ==
    (mret # MeshPending /\ MeshVolume(mesh) <= 0) =>
        /\ mret.exc = "none"
        /\ mret.com = BoxCentre(mesh)
        /\ mret.inertia =
               Diag(inertia_box(target_mass, mesh.size[1], mesh.size[2], mesh.size[3]))
        /\ Warned
        /\ (mesh.size = <<2, 2, 2>> /\ target_mass = 1) =>
               mret.inertia = Diag(<< Rat(8, 12), Rat(8, 12), Rat(8, 12) >>)

C9_Witness ==
    /\ mret # MeshPending
    /\ mesh.sign = 0
    /\ mesh.size = <<2, 2, 2>>
    /\ target_mass = 1
    /\ mret.inertia[1][1] = [n |-> 2, d |-> 3]
    /\ Warned

\* C10: on a mesh of positive volume V the density is set to m/V before the
\* centre of mass and the tensor are read, so the tensor returned is that of a
\* uniform solid of total mass m; for the same mesh the tensor for mass 2*m is
\* twice the tensor for mass m and the centre of mass is the same.
C10_DensityScaling ==
    (mret # MeshPending /\ MeshVolume(mesh) > 0) =>
        /\ mret_double = MeshPending =>
               mesh.density = Rat(target_mass, MeshVolume(mesh))
        /\ mret.com = BoxCentre(mesh)
        /\ mret.inertia =
               Diag(inertia_box(target_mass, mesh.size[1], mesh.size[2], mesh.size[3]))
        /\ mret_double # MeshPending =>
               /\ mesh.density = Rat(2 * target_mass, MeshVolume(mesh))
               /\ mret_double.com = mret.com
               /\ \A a, b \in 1..3 :
                      mret_double.inertia[a][b] = RMul(R(2), mret.inertia[a][b])

C10_Witness ==
    /\ mret_double # MeshPending
    /\ MeshVolume(mesh) > 1
    /\ mret_double.inertia # mret.inertia
    /\ mret.inertia[1][1] # mret.inertia[3][3]

(* ========================= the frame converter ========================= *)
Diagonalized == fr_diag.called

\* C12: the principal moments returned by diagonalize_inertia are in ascending
\* order, and column i of the returned rotation matrix is a unit eigenvector of
\* the input tensor for the i-th principal moment.
C12_AscendingEigenpairs ==
    Diagonalized =>
        LET p == fr_diag.principal_inertia
            V == fr_diag.rotation_matrix
        IN  /\ RLe(p[1], p[2]) /\ RLe(p[2], p[3])
            /\ \A c \in 1..3 :
                   /\ Dot(Col(V, c), Col(V, c)) = R(1)
                   /\ \A k \in 1..3 :
                          RAdd(RAdd(RMul(fr_tensor[k][1], V[1][c]),
                                    RMul(fr_tensor[k][2], V[2][c])),
                               RMul(fr_tensor[k][3], V[3][c])) = RMul(p[c], V[k][c])

C12_Witness ==
    /\ Diagonalized
    /\ fr_moments = << R(2), R(-1), R(1) >>
    /\ fr_quat = << 1, 2, 0, -1 >>
    /\ fr_diag.principal_inertia = << R(-1), R(1), R(2) >>

\* C13: the rotation matrix returned by diagonalize_inertia has determinant +1,
\* whatever the sign of the determinant of the eigenvector matrix eigh returned.
C13_ProperRotation ==
    Diagonalized => Det3(fr_diag.rotation_matrix) = R(1)

\* the returned matrix is an eigenvector matrix of negative determinant with its
\* first column negated
C13_Witness ==
    /\ Diagonalized
    /\ fr_moments[1] # fr_moments[2] /\ fr_moments[2] # fr_moments[3]
    /\ fr_moments[1] # fr_moments[3]
    /\ \E e \in Eigh(fr_tensor) :
           /\ Det3(e.v) = R(-1)
           /\ fr_diag.rotation_matrix = SignCols(e.v, << -1, 1, 1 >>)

\* C14: rotate_inertia returns R * diag(moments) * R^T with R the rotation matrix
\* of the quaternion [w, x, y, z]: entry (a, b) is the sum over k of
\* R[a][k] * moments[k] * R[b][k]; the result is symmetric and its trace is the
\* sum of the three moments.
C14_SimilarityTransform ==
    (fr_tensor # None) =>
        LET Rm == quat_to_rotation_matrix(fr_quat)
            T == fr_tensor
            Term(a, b, k) == RMul(RMul(Rm[a][k], fr_moments[k]), Rm[b][k])
        IN  /\ \A a, b \in 1..3 :
                   T[a][b] = RAdd(RAdd(Term(a, b, 1), Term(a, b, 2)), Term(a, b, 3))
            /\ \A a, b \in 1..3 : T[a][b] = T[b][a]
            /\ RAdd(RAdd(T[1][1], T[2][2]), T[3][3])
                   = RAdd(RAdd(fr_moments[1], fr_moments[2]), fr_moments[3])
            /\ (fr_quat = << 1, 0, 0, 0 >>) => T = Diag(fr_moments)

C14_Witness ==
    /\ fr_tensor # None
    /\ fr_moments = << R(0), R(1), R(2) >>
    /\ fr_quat = << 2, 1, 0, 0 >>
    /\ fr_tensor = << << R(0), R(0), R(0) >>,
                      << R(0), Rat(41, 25), Rat(-12, 25) >>,
                      << R(0), Rat(-12, 25), Rat(34, 25) >> >>

SortMoments(m) == [r \in 1..3 |-> m[ArgSort(m)[r]]]

\* C15: diagonalize_inertia(rotate_inertia(moments, q)) returns the three moments
\* sorted ascending, a rotation matrix V with V * diag(p) * V^T equal to the
\* tensor, and a scalar-first quaternion which is the one of V and from which
\* rotate_inertia rebuilds the same tensor.
C15_RoundTrip ==
    /\ Diagonalized =>
          LET p == fr_diag.principal_inertia
              V == fr_diag.rotation_matrix
          IN  /\ p = SortMoments(fr_moments)
              /\ MatMul(MatMul(V, Diag(p)), Transpose(V)) = fr_tensor
              /\ quat_to_rotation_matrix(fr_diag.quat) = V
    /\ (fr_back # None) => fr_back = fr_tensor

C15_Witness ==
    /\ fr_back # None
    /\ fr_back = fr_tensor
    /\ fr_moments = << R(2), R(0), R(1) >>
    /\ fr_quat = << 2, 1, 0, 0 >>
    /\ fr_diag.quat # fr_quat

(* ========================== the validity checks ======================== *)
\* by how much the sum of two moments falls short of the third
Shortfall(a, b, c) == RSub(c, RAdd(a, b))
Shortfalls == << Shortfall(v_in.ixx, v_in.iyy, v_in.izz),
                 Shortfall(v_in.iyy, v_in.izz, v_in.ixx),
                 Shortfall(v_in.izz, v_in.ixx, v_in.iyy) >>
Tolerance == Rat(1, 1000)
WithinTolerance == \A k \in 1..3 : RLe(Shortfalls[k], Tolerance)

\* C16: each of the two validate_inertia functions returns True exactly when no
\* sum of two moments is smaller than the third moment by more than the
\* tolerance 1e-10, so a shortfall of at most the tolerance is accepted.
C16_ToleranceInBoth ==
    /\ v_prim.called => (v_prim.valid <=> WithinTolerance)
    /\ v_stl.called => (v_stl.valid <=> WithinTolerance)

\* the diagnostics expected when the inequalities numbered in bad are violated
Pairs == << "Ixx + Iyy", "Iyy + Izz", "Izz + Ixx" >>
Thirds == << "Izz", "Ixx", "Iyy" >>
RECURSIVE Diagnostics(_, _)
Diagnostics(bad, k) ==
    IF k > 3 THEN << >>
    ELSE (IF k \in bad
          THEN << [kind |-> "warning", body |-> v_in.name, pair |-> Pairs[k], third |-> Thirds[k]] >>
          ELSE << >>) \o Diagnostics(bad, k + 1)

StlRun == stl_files # << >>
Readable(k) == stl_files[k].readable
NotWatertight(k) == Readable(k) /\ ~stl_files[k].mesh.is_watertight
Passed(k) == cursor > k

\* the warning of load_stl for file k
NotWatertightWarned(k) ==
    \E n \in 1..Len(stdout) :
        stdout[n].kind = "warning" /\ "file" \in DOMAIN stdout[n] /\ stdout[n].file = k

\* the warning of process_stl_files for a link without a mass in the table
MassDefaultWarned(k) ==
    \E n \in 1..Len(stdout) :
        /\ stdout[n].kind = "warning"
        /\ DOMAIN stdout[n] = {"kind", "body", "text"}
        /\ stdout[n].body = k

\* a diagnostic of validate_inertia for body k
InvalidReported(k) ==
    \E n \in 1..Len(stdout) :
        stdout[n].kind = "warning" /\ "pair" \in DOMAIN stdout[n] /\ stdout[n].body = k

Twin(file) == [file EXCEPT !.mesh.is_watertight = TRUE]

IsLoadWarning(line) == line.kind = "warning" /\ "file" \in DOMAIN line
NoLoadWarnings(lines) == SelectSeq(lines, LAMBDA line : ~IsLoadWarning(line))

\* C11: load_stl warns about a mesh that is not watertight and returns it, and
\* process_stl_files computes, diagonalizes, validates and records that body as
\* it would the same mesh with a watertight surface: the iteration on such a
\* file does not leave the loop, it prints the warning, and apart from the
\* warning it stores an entry and prints lines that the watertight mesh can
\* get.  No such warning is ever printed for a watertight mesh.
C11_NonWatertightProcessed ==
    /\ [][ \A k \in 1..Len(stl_files) :
               (pc = "stl_loop" /\ cursor = k /\ NotWatertight(k)) =>
                   /\ pc' = "stl_loop"
                   /\ cursor' = k + 1
                   /\ NotWatertightWarned(k)'
                   /\ \E o \in ProcessStlFile(k, Twin(stl_files[k]), masses) :
                          /\ results' = Append(results, o.entry)
                          /\ NoLoadWarnings(stdout') = NoLoadWarnings(stdout) \o o.printed
                          /\ Len(stdout') = Len(stdout) + Len(o.printed) + 1 ]_vars
    /\ [](StlRun => \A k \in 1..Len(stl_files) :
                        (Readable(k) /\ ~NotWatertight(k)) => ~NotWatertightWarned(k))

C11_Witness ==
    /\ StlRun
    /\ pc = "done"
    /\ \E k \in 1..Len(stl_files) :
           NotWatertight(k) /\ NotWatertightWarned(k) /\ Recorded(k) /\ Emitted(k, "xml")

FieldsMain == {"name", "mass", "com", "diag_inertia", "full_inertia", "quat"}
FieldsStl == {"name", "mass", "com", "inertia_full", "principal_inertia",
              "rotation_matrix", "quat"}

\* C18: in both batches a body for which validate_inertia printed a diagnostic
\* is recorded in results with the fields of every other body and, once the
\* script has ended, is in the output of each formatter; the script never
\* ends with an exception at a body whose shape is supported (main) or whose
\* file is readable (process_stl_files).
C18_InvalidNeverBlocks ==
    /\ \A k \in 1..(Len(all_links) + Len(stl_files)) :
           InvalidReported(k) =>
               /\ \E n \in 1..Len(results) :
                      /\ results[n].name = k
                      /\ DOMAIN results[n] = (IF StlRun THEN FieldsStl ELSE FieldsMain)
               /\ (pc = "done") =>
                      IF StlRun
                      THEN Emitted(k, "xml") /\ Emitted(k, "urdf") /\ Emitted(k, "python")
                      ELSE Emitted(k, "urdf") /\ Emitted(k, "mujoco")
    /\ \A n \in 1..Len(results) :
           DOMAIN results[n] = (IF StlRun THEN FieldsStl ELSE FieldsMain)
    /\ (pc = "aborted") =>
           IF StlRun THEN ~Readable(cursor)
           ELSE all_links[cursor].shape \notin SupportedShapes

C18_Witness ==
    /\ StlRun
    /\ pc = "done"
    /\ \E k \in 1..Len(stl_files) :
           InvalidReported(k) /\ Recorded(k) /\ Emitted(k, "python")

\* C19: in process_stl_files a file whose processing raises does not keep the
\* other files of the directory from being processed: when the script has
\* ended every readable file has an entry in results.
C19_FailureConfinedToFile ==
    (StlRun /\ Terminated) =>
        \A k \in 1..Len(stl_files) : Readable(k) => Recorded(k)

\* C20: a link name absent from the mass table is processed with the default
\* mass 1.0 kg (1000 g) and a warning, and is never the cause of an exception; a
\* name in the table is processed with its table mass and no such warning; the
\* mass recorded is the one the tensor was computed with (for the box-shaped
\* meshes, the tensor is the box formula at the recorded mass).
C20_DefaultMass ==
    StlRun =>
        /\ \A n \in 1..Len(results) :
               LET e == results[n]
                   k == e.name
                   sz == stl_files[k].mesh.size
               IN  /\ IF k \in DOMAIN masses
                      THEN e.mass = masses[k] /\ ~MassDefaultWarned(k)
                      ELSE e.mass = 1000 /\ MassDefaultWarned(k)
                   /\ e.inertia_full = Diag(inertia_box(e.mass, sz[1], sz[2], sz[3]))
        /\ \A k \in 1..Len(stl_files) :
               (Readable(k) /\ Passed(k)) => Recorded(k)
        /\ (pc = "aborted" /\ cursor \notin DOMAIN masses) => ~Readable(cursor)

C20_Witness ==
    /\ StlRun
    /\ \E n, j \in 1..Len(results) :
           /\ results[n].name \notin DOMAIN masses
           /\ results[n].mass = 1000
           /\ results[j].name \in DOMAIN masses
           /\ results[j].mass = 150

(* ------------- update_inertia_all_files.py: the patcher ---------------- *)
\* The text of a file is the sequence of its elements in document order: the
\* opening tag of a <body> or <link> with its name, a closing tag, an
\* <inertial> with the form of its attributes and their text, any other
\* element.  White space between elements is not kept.

\* v rounded to the nearest multiple of step, ties to the even multiple
RoundTo(v, step) ==
    LET lo == (v \div step) * step
        r == v - lo
    IN  IF 2 * r < step THEN lo
        ELSE IF 2 * r > step THEN lo + step
        ELSE IF (lo \div step) % 2 = 0 THEN lo ELSE lo + step

\* f"{v:.6f}" of a number counted in units of 1e-7: six decimals
Fmt6f(v) == [fmt |-> "f", digits |-> RoundTo(v, 10)]

\* f"{v:.6g}" of a number of at most seven digits: six significant digits
Fmt6g(v) == [fmt |-> "g", digits |-> IF Abs(v) < 1000000 THEN v ELSE RoundTo(v, 10)]

\* f"{v}"
Str(v) == [fmt |-> "repr", digits |-> v]

\* two entries of INERTIA_DATA: mass in units of 0.01, com and quat in units of
\* 1e-7, diaginertia in units of 1e-8, urdf_inertia in units of 1e-10
PelvisData ==
    [mass |-> 334,
     com |-> << -2760, 45400, -784850 >>,
     diaginertia |-> << 671618, 1612530, 1760760 >>,
     quat |-> << -4833090, 5191580, 5101480, -4864530 >>,
     urdf_inertia |-> [ixx |-> 176020000, ixy |-> -667118, ixz |-> 888231,
                       iyy |-> 67179400, iyz |-> 1121750, izz |-> 161292000]]

WaistPitchData ==
    [mass |-> 201,
     com |-> << -2180, 284120, 2161210 >>,
     diaginertia |-> << 1035930, 3165900, 3980560 >>,
     quat |-> << -127460, 7073910, 130490, -7065870 >>,
     urdf_inertia |-> [ixx |-> 398056000, ixy |-> 24533, ixz |-> 333211,
                       iyy |-> 316306000, iyz |-> 7763590, izz |-> 103877000]]

\* the items of INERTIA_DATA in the order of the dictionary: the entries of
\* the literal, then torso_link, which is given waist_pitch_link's record
INERTIA_DATA ==
    << [name |-> "pelvis", data |-> PelvisData],
       [name |-> "waist_pitch_link", data |-> WaistPitchData],
       [name |-> "torso_link", data |-> WaistPitchData] >>

OpenTag(name) == [tag |-> "open", name |-> name]
CloseTag == [tag |-> "close"]
OtherElement == [tag |-> "other"]

\* the attribute forms of an <inertial ... /> that the XML pattern matches:
\* pos, an optional quat, mass, diaginertia, in this order
XmlMatchedForms == { "pos_quat_mass_diaginertia", "pos_mass_diaginertia" }

\* the form of an <inertial> block that the URDF pattern matches: origin with
\* xyz and rpy, mass, inertia, in this order
UrdfMatchedForms == { "origin_mass_inertia" }

\* a replacement that writes the tensor as fullinertia
NewXmlInertial_fullinertia(data) ==
    [tag |-> "inertial",
     form |-> "pos_mass_fullinertia",
     text |-> [pos |-> << Fmt6f(data.com[1]), Fmt6f(data.com[2]), Fmt6f(data.com[3]) >>,
               mass |-> Str(data.mass),
               fullinertia |-> << Fmt6g(data.diaginertia[1]), Fmt6g(data.diaginertia[2]),
                                  Fmt6g(data.diaginertia[3]) >>]]

\* new_inertial of update_xml_inertia: the text that replaces the match after
\* its first group
NewXmlInertial(data) ==
    [tag |-> "inertial",
     form |-> "pos_quat_mass_diaginertia",
     text |-> [pos |-> << Fmt6f(data.com[1]), Fmt6f(data.com[2]), Fmt6f(data.com[3]) >>,
               quat |-> << Fmt6f(data.quat[1]), Fmt6f(data.quat[2]),
                           Fmt6f(data.quat[3]), Fmt6f(data.quat[4]) >>,
               mass |-> Str(data.mass),
               diaginertia |-> << Fmt6g(data.diaginertia[1]), Fmt6g(data.diaginertia[2]),
                                  Fmt6g(data.diaginertia[3]) >>]]

\* new_inertial of update_urdf_inertia
NewUrdfInertial(data) ==
    [tag |-> "inertial",
     form |-> "origin_mass_inertia",
     text |-> [xyz |-> << Fmt6f(data.com[1]), Fmt6f(data.com[2]), Fmt6f(data.com[3]) >>,
               rpy |-> "0 0 0",
               mass |-> Str(data.mass),
               inertia |-> [k \in DOMAIN data.urdf_inertia |-> Fmt6g(data.urdf_inertia[k])]]]

\* where the XML pattern, begun at the opening tag at position i, ends: `.*?`
\* with DOTALL runs over any text, tags included, up to the nearest <inertial>
\* whose attributes have a matched form; 0 when there is none
XmlMatchEnd(content, i) ==
    LET ends == { j \in (i + 1)..Len(content) :
                      content[j].tag = "inertial" /\ content[j].form \in XmlMatchedForms }
    IN  IF ends = {} THEN 0 ELSE CHOOSE j \in ends : \A m \in ends : j <= m

\* where the URDF pattern ends: only white space may separate the opening
\* tag from <inertial>
UrdfMatchEnd(content, i) ==
    IF /\ i + 1 <= Len(content)
       /\ content[i + 1].tag = "inertial"
       /\ content[i + 1].form \in UrdfMatchedForms
    THEN i + 1 ELSE 0

\* re.subn: the matches are found from left to right without overlap, each is
\* replaced, and the number of matches is returned with the new text
RECURSIVE XmlSubn(_, _, _, _, _)
XmlSubn(content, link_name, data, from, count) ==
    IF from > Len(content) THEN [content |-> content, count |-> count]
    ELSE IF /\ content[from].tag = "open"
            /\ content[from].name = link_name
            /\ XmlMatchEnd(content, from) # 0
    THEN LET j == XmlMatchEnd(content, from)
         IN  XmlSubn([content EXCEPT ![j] = NewXmlInertial(data)], link_name, data, j + 1, count + 1)
    ELSE XmlSubn(content, link_name, data, from + 1, count)

RECURSIVE UrdfSubn(_, _, _, _, _)
UrdfSubn(content, link_name, data, from, count) ==
    IF from > Len(content) THEN [content |-> content, count |-> count]
    ELSE IF /\ content[from].tag = "open"
            /\ content[from].name = link_name
            /\ UrdfMatchEnd(content, from) # 0
    THEN LET j == UrdfMatchEnd(content, from)
         IN  UrdfSubn([content EXCEPT ![j] = NewUrdfInertial(data)], link_name, data, j + 1, count + 1)
    ELSE UrdfSubn(content, link_name, data, from + 1, count)

update_xml_inertia(content, link_name, data) == XmlSubn(content, link_name, data, 1, 0)

update_urdf_inertia(content, link_name, data) == UrdfSubn(content, link_name, data, 1, 0)

(* ---------------------- files given to the patcher --------------------- *)
\* names of bodies: two with an entry in INERTIA_DATA, one without
BodyNames == { "pelvis", "torso_link", "imu_link" }

XmlForms == { "none", "pos_quat_mass_diaginertia", "pos_mass_diaginertia", "pos_mass_fullinertia" }
UrdfForms == { "none", "origin_mass_inertia", "visual_origin_mass_inertia", "mass_origin_inertia" }

\* the <inertial> of a body as the file has it, after any element that
\* precedes it
InertialOf(b, k) ==
    IF b[k].form = "none" THEN << >>
    ELSE IF b[k].form = "visual_origin_mass_inertia"
    THEN << OtherElement, [tag |-> "inertial", form |-> "origin_mass_inertia", text |-> [file |-> k]] >>
    ELSE << [tag |-> "inertial", form |-> b[k].form, text |-> [file |-> k]] >>

\* the text of a file whose bodies are b[k], b[k+1], ...: a nested body holds
\* the bodies after it
RECURSIVE Render(_, _)
Render(b, k) ==
    IF k > Len(b) THEN << >>
    ELSE LET head == << OpenTag(b[k].name) >> \o InertialOf(b, k)
         IN  IF b[k].nested /\ k < Len(b)
             THEN head \o Render(b, k + 1) \o << CloseTag >>
             ELSE head \o << CloseTag >> \o Render(b, k + 1)

XmlFiles ==
    { Render(b, 1) : b \in UNION { [1..n -> [name : BodyNames, form : XmlForms, nested : BOOLEAN]] :
                                   n \in 1..MaxBodies } }

\* the links of a URDF are not nested
UrdfFiles ==
    { Render(b, 1) : b \in UNION { [1..n -> [name : BodyNames, form : UrdfForms, nested : {FALSE}]] :
                                   n \in 1..MaxBodies } }

(* ------ update_inertia_all_files.py: process_xml_file / _urdf_file ----- *)
PatchInit ==
    /\ PrimIdle
    /\ MainIdle
    /\ MeshIdle
    /\ FrameIdle
    /\ ValIdle
    /\ StlIdle
    /\ UsdIdle
    /\ HullIdle
    /\ p_kind \in { "xml", "urdf" }
    /\ p_file \in IF p_kind = "xml" THEN XmlFiles ELSE UrdfFiles
    /\ p_content = << >>
    /\ p_cursor = 0
    /\ p_total = 0
    /\ p_counts = << >>
    /\ p_last = [called |-> FALSE]
    /\ p_runs = << >>
    /\ p_stdout = << >>
    /\ p_pc = "read"

\* a run of the script: the file is read
PatchRead ==
    /\ p_pc = "read"
    /\ Len(p_runs) < MaxRuns
    /\ p_content' = p_file
    /\ p_cursor' = 1
    /\ p_total' = 0
    /\ p_counts' = << >>
    /\ p_stdout' = Append(p_stdout, [kind |-> "processing", file |-> p_kind])
    /\ p_pc' = "loop"
    /\ UNCHANGED << p_kind, p_file, p_last, p_runs,
                    primVars, mainVars, meshVars, frameVars, valVars, stlVars, usdVars, hullVars >>

\* one pass of the loop over INERTIA_DATA.items()
PatchLink ==
    /\ p_pc = "loop"
    /\ p_cursor <= Len(INERTIA_DATA)
    /\ LET link_name == INERTIA_DATA[p_cursor].name
           data == INERTIA_DATA[p_cursor].data
           r == IF p_kind = "xml" THEN update_xml_inertia(p_content, link_name, data)
                ELSE update_urdf_inertia(p_content, link_name, data)
       IN  /\ p_content' = r.content
           /\ p_counts' = Append(p_counts, r.count)
           /\ p_last' = [called |-> TRUE, before |-> p_content, link_name |-> link_name,
                         after |-> r.content, count |-> r.count]
           /\ p_total' = p_total + r.count
           /\ p_stdout' = IF r.count > 0
                          THEN Append(p_stdout, [kind |-> "updated", link |-> link_name, count |-> r.count])
                          ELSE p_stdout
    /\ p_cursor' = p_cursor + 1
    /\ UNCHANGED << p_kind, p_file, p_runs, p_pc,
                    primVars, mainVars, meshVars, frameVars, valVars, stlVars, usdVars, hullVars >>

\* after the loop: the file is written and the total is printed and returned
PatchWrite ==
    /\ p_pc = "loop"
    /\ p_cursor > Len(INERTIA_DATA)
    /\ p_file' = p_content
    /\ p_stdout' = Append(p_stdout, [kind |-> "total", count |-> p_total])
    /\ p_runs' = Append(p_runs, [content |-> p_content, counts |-> p_counts, total |-> p_total])
    /\ p_pc' = "read"
    /\ UNCHANGED << p_kind, p_content, p_cursor, p_total, p_counts, p_last,
                    primVars, mainVars, meshVars, frameVars, valVars, stlVars, usdVars, hullVars >>

PatchNext == PatchRead \/ PatchLink \/ PatchWrite

SpecPatch == PatchInit /\ [][PatchNext]_vars

(* ------------- scripts/convert_taks_t1_urdf_to_usd.py ------------------ *)
\* The file system and the host runtime are outside the script: what they will
\* answer is drawn at the start.  At most one host call raises, since the first
\* exception ends the process.
UsdEnvs ==
    [urdf_exists : BOOLEAN,
     makedirs : { "ok", "output_fails", "configuration_fails" },
     converter : { "omni.isaac.urdf", "omni.importer.urdf", "missing" },
     parsed_urdf : { "robot", "None" },
     dest_path : { "/Taks_T1_omnipicker", "" },
     raises : { "none", "configure", "parse_urdf", "import_robot", "Export" }]

UsdInit ==
    /\ PrimIdle
    /\ MainIdle
    /\ MeshIdle
    /\ FrameIdle
    /\ ValIdle
    /\ StlIdle
    /\ PatchIdle
    /\ HullIdle
    /\ usd_env \in UsdEnvs
    /\ usd_pc = "check_urdf"
    /\ usd_trace = << >>
    /\ usd_dirs = {}
    /\ usd_files = {}
    /\ usd_stdout = << >>
    /\ usd_status = << >>

UsdOthers == << primVars, mainVars, meshVars, frameVars, valVars, stlVars, patchVars, hullVars >>

\* sys.exit(1) after the message, or an exception nobody catches: the
\* interpreter ends with status 1
UsdExit(step, printed) ==
    /\ usd_trace' = Append(usd_trace, step)
    /\ usd_stdout' = usd_stdout \o printed
    /\ usd_status' = << 1 >>
    /\ usd_pc' = "exited"

UsdStep(step, printed, next) ==
    /\ usd_trace' = Append(usd_trace, step)
    /\ usd_stdout' = usd_stdout \o printed
    /\ usd_pc' = next

\* main, lines 113-115
UsdCheckUrdf ==
    /\ usd_pc = "check_urdf"
    /\ IF ~usd_env.urdf_exists
       THEN /\ UsdExit("check_urdf", << [kind |-> "error", text |-> "URDF file not found"] >>)
            /\ UNCHANGED << usd_env, usd_dirs, usd_files, UsdOthers >>
       ELSE /\ UsdStep("check_urdf", << >>, "makedirs_output")
            /\ UNCHANGED << usd_env, usd_dirs, usd_files, usd_status, UsdOthers >>

\* main, line 117
UsdMakeOutputDir ==
    /\ usd_pc = "makedirs_output"
    /\ IF usd_env.makedirs = "output_fails"
       THEN /\ UsdExit("makedirs_output", << >>)
            /\ UNCHANGED << usd_env, usd_dirs, usd_files, UsdOthers >>
       ELSE /\ UsdStep("makedirs_output", << >>, "makedirs_configuration")
            /\ usd_dirs' = usd_dirs \cup { "output_dir" }
            /\ UNCHANGED << usd_env, usd_files, usd_status, UsdOthers >>

\* main, line 118
UsdMakeConfigurationDir ==
    /\ usd_pc = "makedirs_configuration"
    /\ IF usd_env.makedirs = "configuration_fails"
       THEN /\ UsdExit("makedirs_configuration", << >>)
            /\ UNCHANGED << usd_env, usd_dirs, usd_files, UsdOthers >>
       ELSE /\ UsdStep("makedirs_configuration", << >>, "print_paths")
            /\ usd_dirs' = usd_dirs \cup { "output_dir/configuration" }
            /\ UNCHANGED << usd_env, usd_files, usd_status, UsdOthers >>

\* main, lines 120-122
UsdPrintPaths ==
    /\ usd_pc = "print_paths"
    /\ UsdStep("print_paths",
               << [kind |-> "info", text |-> "Project root"],
                  [kind |-> "info", text |-> "URDF path"],
                  [kind |-> "info", text |-> "Output dir"] >>,
               "import_converter")
    /\ UNCHANGED << usd_env, usd_dirs, usd_files, usd_status, UsdOthers >>

\* convert_urdf_to_usd, lines 21-29
UsdImportConverter ==
    /\ usd_pc = "import_converter"
    /\ IF usd_env.converter = "missing"
       THEN /\ UsdExit("import_converter",
                       << [kind |-> "error", text |-> "Cannot import URDF converter"],
                          [kind |-> "info", text |-> "Usage"] >>)
            /\ UNCHANGED << usd_env, usd_dirs, usd_files, UsdOthers >>
       ELSE /\ UsdStep("import_converter", << >>, "configure")
            /\ UNCHANGED << usd_env, usd_dirs, usd_files, usd_status, UsdOthers >>

\* convert_urdf_to_usd, lines 31-53
UsdConfigure ==
    /\ usd_pc = "configure"
    /\ IF usd_env.raises = "configure"
       THEN /\ UsdExit("configure", << >>)
            /\ UNCHANGED << usd_env, usd_dirs, usd_files, UsdOthers >>
       ELSE /\ UsdStep("configure",
                       << [kind |-> "info", text |-> "Converting URDF"],
                          [kind |-> "info", text |-> "Output USD"] >>,
                       "parse_urdf")
            /\ UNCHANGED << usd_env, usd_dirs, usd_files, usd_status, UsdOthers >>

\* a parse step that goes on to import_robot whatever parse_urdf returned
UsdParseUrdf_unchecked ==
    /\ usd_pc = "parse_urdf"
    /\ IF usd_env.raises = "parse_urdf"
       THEN /\ UsdExit("parse_urdf", << >>)
            /\ UNCHANGED << usd_env, usd_dirs, usd_files, UsdOthers >>
       ELSE /\ UsdStep("parse_urdf", << >>, "import_robot")
            /\ UNCHANGED << usd_env, usd_dirs, usd_files, usd_status, UsdOthers >>

\* convert_urdf_to_usd, lines 56-61
UsdParseUrdf ==
    /\ usd_pc = "parse_urdf"
    /\ IF usd_env.raises = "parse_urdf"
       THEN /\ UsdExit("parse_urdf", << >>)
            /\ UNCHANGED << usd_env, usd_dirs, usd_files, UsdOthers >>
       ELSE IF usd_env.parsed_urdf = "None"
       THEN /\ UsdExit("parse_urdf", << [kind |-> "error", text |-> "Failed to parse URDF file"] >>)
            /\ UNCHANGED << usd_env, usd_dirs, usd_files, UsdOthers >>
       ELSE /\ UsdStep("parse_urdf", << >>, "import_robot")
            /\ UNCHANGED << usd_env, usd_dirs, usd_files, usd_status, UsdOthers >>

\* convert_urdf_to_usd, lines 63-71 and 78-80: the host writes robot.usd when
\* the import succeeds
UsdImportRobot ==
    /\ usd_pc = "import_robot"
    /\ IF usd_env.raises = "import_robot"
       THEN /\ UsdExit("import_robot", << >>)
            /\ UNCHANGED << usd_env, usd_dirs, usd_files, UsdOthers >>
       ELSE IF usd_env.dest_path = ""
       THEN /\ UsdExit("import_robot", << [kind |-> "error", text |-> "URDF import failed"] >>)
            /\ UNCHANGED << usd_env, usd_dirs, usd_files, UsdOthers >>
       ELSE /\ UsdStep("import_robot",
                       << [kind |-> "info", text |-> "Successfully converted URDF to USD"] >>,
                       "Export")
            /\ usd_files' = usd_files \cup { "robot.usd" }
            /\ UNCHANGED << usd_env, usd_dirs, usd_status, UsdOthers >>

\* convert_urdf_to_usd, lines 73-77
UsdExport ==
    /\ usd_pc = "Export"
    /\ IF usd_env.raises = "Export"
       THEN /\ UsdExit("Export", << >>)
            /\ UNCHANGED << usd_env, usd_dirs, usd_files, UsdOthers >>
       ELSE /\ UsdStep("Export", << [kind |-> "info", text |-> "Exported USDA"] >>, "done")
            /\ usd_files' = usd_files \cup { "robot.usda" }
            /\ UNCHANGED << usd_env, usd_dirs, usd_status, UsdOthers >>

\* main, line 125, and the end of the script
UsdDone ==
    /\ usd_pc = "done"
    /\ usd_trace' = Append(usd_trace, "done")
    /\ usd_stdout' = Append(usd_stdout, [kind |-> "info", text |-> "Done"])
    /\ usd_status' = << 0 >>
    /\ usd_pc' = "exited"
    /\ UNCHANGED << usd_env, usd_dirs, usd_files, UsdOthers >>

UsdNext ==
    \/ UsdCheckUrdf
    \/ UsdMakeOutputDir
    \/ UsdMakeConfigurationDir
    \/ UsdPrintPaths
    \/ UsdImportConverter
    \/ UsdConfigure
    \/ UsdParseUrdf
    \/ UsdImportRobot
    \/ UsdExport
    \/ UsdDone

\* the interpreter runs the script to its end
SpecUsd == UsdInit /\ [][UsdNext]_vars /\ WF_vars(UsdNext)

(* ------- extract_foot_collision.py: get_convex_hull_points ------------- *)
\* A vertex read from the STL file is a triple of integers counting 1e-7 m.
\* After np.round(vertices, 6) the coordinates are whole micrometres, and the
\* geometry is computed on these in exact arithmetic.  The inputs avoid the
\* values halfway between two roundings, and hulls whose edge lengths are not
\* whole numbers of micrometres.

\* np.round(v, 6) of a raw coordinate, in micrometres
Round6(raw) == RoundTo(raw, 10) \div 10

\* round(v, 5) and round(v, 4) of a coordinate in micrometres
Round5(um) == RoundTo(um, 10)
Round4(um) == RoundTo(um, 100)

LexLess(a, b) ==
    \/ a[1] < b[1]
    \/ a[1] = b[1] /\ a[2] < b[2]
    \/ a[1] = b[1] /\ a[2] = b[2] /\ a[3] < b[3]

\* np.unique(..., axis=0): the distinct rows in lexicographic order
RECURSIVE SortLex(_)
SortLex(S) ==
    IF S = {} THEN << >>
    ELSE LET m == CHOOSE x \in S : \A y \in S : x = y \/ LexLess(x, y)
         IN  << m >> \o SortLex(S \ { m })

Range(s) == { s[k] : k \in 1..Len(s) }

Min(S) == CHOOSE x \in S : \A y \in S : x <= y
Max(S) == CHOOSE x \in S : \A y \in S : x >= y

\* bottom_verts: the rows of unique_verts with z <= z_min + z_range * ratio
BottomVerts(unique_verts, ratio) ==
    LET zs == { v[3] : v \in Range(unique_verts) }
        z_min == Min(zs)
        z_range == Max(zs) - z_min
    IN  SelectSeq(unique_verts, LAMBDA v : (v[3] - z_min) * ratio.d <= z_range * ratio.n)

Cross(o, a, b) == (a[1] - o[1]) * (b[2] - o[2]) - (a[2] - o[2]) * (b[1] - o[1])

\* scipy's ConvexHull raises QhullError on fewer than three points and on
\* points that lie on one line
Degenerate(P) ==
    \/ Cardinality(P) < 3
    \/ \A a \in P, b \in P, c \in P : Cross(a, b, c) = 0

\* hull.vertices: the points of P that are corners of its convex hull
Extreme(P) ==
    { q \in P :
          \E a \in P \ { q } :
              \A r \in P \ { q, a } :
                  \/ Cross(q, a, r) > 0
                  \/ /\ Cross(q, a, r) = 0
                     /\ (a[1] - q[1]) * (r[1] - q[1]) + (a[2] - q[2]) * (r[2] - q[2]) > 0 }

\* where np.arctan2 puts a vector in (-pi, pi]: below the x axis, on its
\* positive half, above it, on its negative half
AngleRank(w) ==
    IF w[2] < 0 THEN 1
    ELSE IF w[2] = 0 /\ w[1] > 0 THEN 2
    ELSE IF w[2] > 0 THEN 3
    ELSE 4

AngleLess(a, b) ==
    \/ AngleRank(a) < AngleRank(b)
    \/ AngleRank(a) = AngleRank(b) /\ a[1] * b[2] - a[2] * b[1] > 0

\* the corner seen from the mean of the corners, scaled by their number
FromCenter(H, v) ==
    LET SumOf[S \in SUBSET H] ==
            IF S = {} THEN << 0, 0 >>
            ELSE LET x == CHOOSE x \in S : TRUE
                 IN  << x[1] + SumOf[S \ { x }][1], x[2] + SumOf[S \ { x }][2] >>
    IN  << Cardinality(H) * v[1] - SumOf[H][1], Cardinality(H) * v[2] - SumOf[H][2] >>

RECURSIVE SortByAngle(_, _)
SortByAngle(H, S) ==
    IF S = {} THEN << >>
    ELSE LET m == CHOOSE x \in S :
                      \A y \in S : x = y \/ AngleLess(FromCenter(H, x), FromCenter(H, y))
         IN  << m >> \o SortByAngle(H, S \ { m })

\* hull_verts after the sort by angle.  A corner whose angle is pi in exact
\* arithmetic is last; the difference of floats that gives its angle may come
\* out below zero, and then np.arctan2 gives -pi and the corner is first.
HullOrders(P) ==
    LET H == Extreme(P)
        s == SortByAngle(H, H)
        last == s[Len(s)]
    IN  { s } \cup IF AngleRank(FromCenter(H, last)) = 4
                   THEN { << last >> \o SubSeq(s, 1, Len(s) - 1) }
                   ELSE {}

SquaredLength(a, b) == (a[1] - b[1]) * (a[1] - b[1]) + (a[2] - b[2]) * (a[2] - b[2])

IsSquare(n) == \E r \in 0..n : r * r = n

ISqrt(n) == CHOOSE r \in 0..n : r * r = n

Closed(hull_verts) == Append(hull_verts, hull_verts[1])

\* seg_lengths and cum_lengths (cum_lengths[1] is the 0 of the code)
SegLengths(hull_verts) ==
    [k \in 1..Len(hull_verts) |->
         ISqrt(SquaredLength(Closed(hull_verts)[k], Closed(hull_verts)[k + 1]))]

RECURSIVE CumLength(_, _)
CumLength(seg, k) == IF k = 0 THEN 0 ELSE CumLength(seg, k - 1) + seg[k]

\* the k-th sampled point (k from 0), at distance k * total / num_points along
\* the closed hull: the point P / D
SampledPoint(hull_verts, num_points, k) ==
    LET seg == SegLengths(hull_verts)
        n == Len(hull_verts)
        total == CumLength(seg, n)
        \* np.searchsorted(cum_lengths, d, side='right') - 1, capped at n - 1
        found == Max({ i \in 0..n : CumLength(seg, i) * num_points <= k * total })
        seg_idx == IF found < n - 1 THEN found ELSE n - 1
        t == Rat(k * total - CumLength(seg, seg_idx) * num_points, num_points * seg[seg_idx + 1])
        a == Closed(hull_verts)[seg_idx + 1]
        b == Closed(hull_verts)[seg_idx + 2]
    IN  [P |-> << a[1] * (t.d - t.n) + b[1] * t.n, a[2] * (t.d - t.n) + b[2] * t.n >>,
         D |-> t.d]

\* D * (squared distance from v to P / D), less a term that is the same for all v
DistanceKey(v, sp) ==
    (v[1] * v[1] + v[2] * v[2]) * sp.D - 2 * (v[1] * sp.P[1] + v[2] * sp.P[2])

\* np.argmin(dists): the first index of the least distance.  Rows with the
\* same x and y have the same float distance; among other rows at the same
\* exact distance the rounding of the floats decides.
NearestIdx(bottom_verts, sp) ==
    LET least == Min({ DistanceKey(bottom_verts[i], sp) : i \in 1..Len(bottom_verts) })
        ties == { i \in 1..Len(bottom_verts) : DistanceKey(bottom_verts[i], sp) = least }
    IN  { i \in ties :
              \A j \in ties :
                  (bottom_verts[j][1] = bottom_verts[i][1] /\ bottom_verts[j][2] = bottom_verts[i][2])
                      => i <= j }

Key5(pt) == << Round5(pt[1]), Round5(pt[2]), Round5(pt[3]) >>

\* lines 91-98: the first point of each key (round to 5 decimals) is kept
Unique(snapped) ==
    LET RECURSIVE Keep(_, _)
        Keep(k, kept) ==
            IF k > Len(snapped) THEN kept
            ELSE IF \E m \in 1..Len(kept) : Key5(kept[m]) = Key5(snapped[k])
                 THEN Keep(k + 1, kept)
                 ELSE Keep(k + 1, Append(kept, snapped[k]))
    IN  Keep(1, << >>)

(* -------------------- meshes given to the extractor --------------------- *)
\* raw vertices, counting 1e-7 m
FootVertexPool ==
    { << 0, 0, 0 >>, << 2, -3, 0 >>, << 302, 0, 0 >>, << 0, 398, 0 >>, << 302, 398, 11 >>,
      << 1200, 0, 0 >>, << 0, 1600, 0 >>, << 1200, 1600, 0 >>, << 0, 0, 2000 >> }

FootRatios == { Rat(1, 20), Rat(1, 1) }

Rounded(vertices) == { << Round6(v[1]), Round6(v[2]), Round6(v[3]) >> : v \in vertices }

BottomXY(vertices, ratio) ==
    { << v[1], v[2] >> : v \in Range(BottomVerts(SortLex(Rounded(vertices)), ratio)) }

\* the edges of the hull have whole lengths
WholeEdges(P) ==
    \A s \in HullOrders(P) :
        \A k \in 1..Len(s) : IsSquare(SquaredLength(Closed(s)[k], Closed(s)[k + 1]))

FootInputs ==
    { in \in [vertices : { V \in SUBSET FootVertexPool : Cardinality(V) \in 3..MaxVerts },
              z_threshold_ratio : FootRatios,
              num_points : 1..MaxPoints] :
          LET P == BottomXY(in.vertices, in.z_threshold_ratio)
          IN  Degenerate(P) \/ WholeEdges(P) }

HullInit ==
    /\ PrimIdle
    /\ MainIdle
    /\ MeshIdle
    /\ FrameIdle
    /\ ValIdle
    /\ StlIdle
    /\ PatchIdle
    /\ UsdIdle
    /\ h_in \in FootInputs
    /\ h_pc = "slice"
    /\ h_unique = << >>
    /\ h_bottom = << >>
    /\ h_hull = << >>
    /\ h_sampled = << >>
    /\ h_snapped = << >>
    /\ h_result = [exc |-> "pending"]

HullOthers == << primVars, mainVars, meshVars, frameVars, valVars, stlVars, patchVars, usdVars >>

\* lines 31-42
HullSlice ==
    /\ h_pc = "slice"
    /\ h_unique' = SortLex(Rounded(h_in.vertices))
    /\ h_bottom' = BottomVerts(h_unique', h_in.z_threshold_ratio)
    /\ h_pc' = "hull"
    /\ UNCHANGED << h_in, h_hull, h_sampled, h_snapped, h_result, HullOthers >>

\* lines 45-53
HullConvex ==
    /\ h_pc = "hull"
    /\ LET xy == { << v[1], v[2] >> : v \in Range(h_bottom) }
       IN  IF Degenerate(xy)
           THEN /\ h_result' = [exc |-> "QhullError"]
                /\ h_pc' = "raised"
                /\ UNCHANGED h_hull
           ELSE /\ h_hull' \in HullOrders(xy)
                /\ h_pc' = "sample"
                /\ UNCHANGED h_result
    /\ UNCHANGED << h_in, h_unique, h_bottom, h_sampled, h_snapped, HullOthers >>

\* lines 57-79
HullSample ==
    /\ h_pc = "sample"
    /\ h_sampled' = [k \in 1..h_in.num_points |->
                         SampledPoint(h_hull, h_in.num_points, k - 1)]
    /\ h_pc' = "snap"
    /\ UNCHANGED << h_in, h_unique, h_bottom, h_hull, h_snapped, h_result, HullOthers >>

\* lines 82-88
HullSnap ==
    /\ h_pc = "snap"
    /\ \E idx \in [1..Len(h_sampled) -> 1..Len(h_bottom)] :
           /\ \A k \in 1..Len(h_sampled) : idx[k] \in NearestIdx(h_bottom, h_sampled[k])
           /\ h_snapped' = [k \in 1..Len(h_sampled) |-> h_bottom[idx[k]]]
    /\ h_pc' = "unique"
    /\ UNCHANGED << h_in, h_unique, h_bottom, h_hull, h_sampled, h_result, HullOthers >>

\* lines 91-98
HullUnique ==
    /\ h_pc = "unique"
    /\ h_snapped' = Unique(h_snapped)
    /\ h_pc' = "output"
    /\ UNCHANGED << h_in, h_unique, h_bottom, h_hull, h_sampled, h_result, HullOthers >>

\* lines 101-111
HullOutput ==
    /\ h_pc = "output"
    /\ h_result' = [exc |-> "none",
                    points |-> [k \in 1..Len(h_snapped) |->
                                    << Round4(h_snapped[k][1]), Round4(h_snapped[k][2]),
                                       Round4(h_snapped[k][3]) >>]]
    /\ h_pc' = "returned"
    /\ UNCHANGED << h_in, h_unique, h_bottom, h_hull, h_sampled, h_snapped, HullOthers >>

HullNext == HullSlice \/ HullConvex \/ HullSample \/ HullSnap \/ HullUnique \/ HullOutput

SpecHull == HullInit /\ [][HullNext]_vars

(* ====================== shape of the core's results ==================== *)
\* C21: every result of the core holds both a diagonal triple and a full
\* tensor: calculate_inertia returns three moments and a 3x3 tensor, with or
\* without a "quat" in the link data, and every entry of the results of
\* process_stl_files has both "principal_inertia" and "inertia_full".
C21_DiagonalAndFullTensor ==
    /\ Returned =>
           /\ Len(Moments(ret)) = 3
           /\ ret.val[4] # None
           /\ Len(ret.val[4]) = 3
    /\ StlRun =>
           \A n \in 1..Len(results) :
               {"principal_inertia", "inertia_full"} \subseteq DOMAIN results[n]

\* C22: the inputs of the numeric core are never mutated: no step changes the
\* mesh handed to compute_inertia_from_mesh (its density included), the tensor
\* handed to diagonalize_inertia or the link record handed to calculate_inertia.
C22_InputsNotMutated ==
    [][ /\ mesh' = mesh
        /\ link_data' = link_data
        /\ (fr_tensor # None) => fr_tensor' = fr_tensor ]_vars

\* the primitive moments of a link, by its shape tag
PrimitiveMoments(l) ==
    IF l.shape = "box" THEN inertia_box(l.mass, l.dims[1], l.dims[2], l.dims[3])
    ELSE IF l.shape = "cylinder_z" THEN inertia_cylinder_z(l.mass, l.dims[1], l.dims[2])
    ELSE IF l.shape = "cylinder_y" THEN inertia_cylinder_y(l.mass, l.dims[1], l.dims[2])
    ELSE inertia_sphere(l.mass, l.dims[1])

NonNegative(x) == ~RLt(x, R(0))

\* C24: whenever validate_inertia of calculate_inertia.py returns True, all
\* three moments are non-negative; and for non-negative moments at most one of
\* the three inequalities is violated, so at most one warning is printed per
\* body.  Stated of the call in exact arithmetic and of the call in floats.
C24_ValidImpliesNonNegative ==
    \A v \in { v_prim, v_float } :
        v.called =>
            /\ v.valid =>
                   (NonNegative(v_in.ixx) /\ NonNegative(v_in.iyy) /\ NonNegative(v_in.izz))
            /\ (NonNegative(v_in.ixx) /\ NonNegative(v_in.iyy) /\ NonNegative(v_in.izz)) =>
                   Len(v.printed) <= 1


(* ------------------------------ the patcher ---------------------------- *)
\* the opening tags that enclose position j
Ancestors(content, j) ==
    { i \in 1..(j - 1) :
          /\ content[i].tag = "open"
          /\ \A m \in (i + 1)..(j - 1) :
                 Cardinality({ q \in (i + 1)..m : content[q].tag = "open" })
                     >= Cardinality({ q \in (i + 1)..m : content[q].tag = "close" }) }

\* the <inertial> elements of a matched form that are children of a body
\* named link_name
OwnInertials(content, link_name) ==
    { j \in 1..Len(content) :
          /\ content[j].tag = "inertial"
          /\ content[j].form \in XmlMatchedForms
          /\ Ancestors(content, j) # {}
          /\ LET parent == CHOOSE i \in Ancestors(content, j) : \A m \in Ancestors(content, j) : m <= i
             IN  content[parent].name = link_name }

\* C25: update_xml_inertia(content, link_name, data) changes only the
\* <inertial> that belongs to the <body> named link_name; when that body has no
\* matched <inertial> of its own, no other body's <inertial> is rewritten, the
\* count is 0 and the content is unchanged.
C25_OnlyTheNamedBody ==
    (p_kind = "xml" /\ p_last.called) =>
        LET own == OwnInertials(p_last.before, p_last.link_name)
        IN  /\ \A j \in 1..Len(p_last.before) :
                   p_last.after[j] # p_last.before[j] => j \in own
            /\ own = {} => (p_last.count = 0 /\ p_last.after = p_last.before)

\* C26: the patching is idempotent: a run of process_xml_file (of
\* process_urdf_file) on the file a first run has written writes the same text
\* and returns the same count for every link of INERTIA_DATA.
C26_Idempotent ==
    \A k \in 2..Len(p_runs) :
        /\ p_runs[k].content = p_runs[1].content
        /\ p_runs[k].counts = p_runs[1].counts
        /\ p_runs[k].total = p_runs[1].total

\* a second run has finished on a file in which the first run rewrote the
\* <inertial> of pelvis and of torso_link
C26_Witness ==
    /\ p_kind = "xml"
    /\ Len(p_runs) = 2
    /\ p_runs[1].counts = << 1, 0, 1 >>
    /\ p_runs[2].counts = << 1, 0, 1 >>
    /\ \E j \in 1..Len(p_file) : p_file[j] = NewXmlInertial(PelvisData)
    /\ \E j \in 1..Len(p_file) : p_file[j] = NewXmlInertial(WaistPitchData)


(* ------------------------------ the converter -------------------------- *)
\* the steps of the script in the order of the program
UsdSteps ==
    << "check_urdf", "makedirs_output", "makedirs_configuration", "print_paths",
       "import_converter", "configure", "parse_urdf", "import_robot", "Export", "done" >>

\* the step fails: its check sends it to sys.exit(1), or its call raises
UsdFails(step) ==
    \/ step = "check_urdf" /\ ~usd_env.urdf_exists
    \/ step = "makedirs_output" /\ usd_env.makedirs = "output_fails"
    \/ step = "makedirs_configuration" /\ usd_env.makedirs = "configuration_fails"
    \/ step = "import_converter" /\ usd_env.converter = "missing"
    \/ step = "configure" /\ usd_env.raises = "configure"
    \/ step = "parse_urdf" /\ (usd_env.raises = "parse_urdf" \/ usd_env.parsed_urdf = "None")
    \/ step = "import_robot" /\ (usd_env.raises = "import_robot" \/ usd_env.dest_path = "")
    \/ step = "Export" /\ usd_env.raises = "Export"

\* the steps that run: up to and with the first that fails
UsdExpected ==
    LET failing == { k \in 1..Len(UsdSteps) : UsdFails(UsdSteps[k]) }
        last == IF failing = {} THEN Len(UsdSteps)
                ELSE CHOOSE k \in failing : \A m \in failing : k <= m
    IN  SubSeq(UsdSteps, 1, last)

UsdRan(step) == \E k \in 1..Len(usd_trace) : usd_trace[k] = step

UsdPrinted(text) == \E k \in 1..Len(usd_stdout) : usd_stdout[k].text = text

\* C27: every failure ends the run with exit status 1 before any later step:
\* the steps that run are those of the program up to the first that fails; a
\* missing URDF file exits before the output directories are created, a failed
\* parse exits before import_robot is called, the USDA file is exported and
\* 'Done' printed only after import_robot returned a non-empty path; and the
\* run ends, with status 1 if a step failed and 0 otherwise.
C27_FailureEndsTheRun ==
    /\ [](/\ Len(usd_trace) <= Len(UsdExpected)
          /\ usd_trace = SubSeq(UsdExpected, 1, Len(usd_trace))
          /\ ~usd_env.urdf_exists => usd_dirs = {}
          /\ (usd_env.parsed_urdf = "None" \/ usd_env.raises = "parse_urdf") => ~UsdRan("import_robot")
          /\ ("robot.usda" \in usd_files \/ UsdPrinted("Done")) =>
                 (UsdRan("import_robot") /\ usd_env.dest_path # "" /\ usd_env.raises # "import_robot")
          /\ usd_status # << >> =>
                 /\ usd_trace = UsdExpected
                 /\ usd_status = IF \E k \in 1..Len(UsdSteps) : UsdFails(UsdSteps[k])
                                 THEN << 1 >> ELSE << 0 >>)
    /\ <>(usd_status # << >>)

\* a run whose parse failed has ended with status 1 after the directories were
\* created and before import_robot
C27_Witness ==
    /\ usd_status = << 1 >>
    /\ usd_env.parsed_urdf = "None"
    /\ usd_env.raises = "none"
    /\ usd_dirs = { "output_dir", "output_dir/configuration" }
    /\ usd_trace[Len(usd_trace)] = "parse_urdf"
    /\ UsdPrinted("Failed to parse URDF file")


(* ------------------------------ the foot points ------------------------ *)
\* the vertices of the mesh in its bottom slice, after the rounding to 4 decimals
BottomVerticesRounded4 ==
    LET zs == { v[3] : v \in h_in.vertices }
        ratio == h_in.z_threshold_ratio
    IN  { << RoundTo(v[1], 1000) \div 10, RoundTo(v[2], 1000) \div 10, RoundTo(v[3], 1000) \div 10 >> :
              v \in { u \in h_in.vertices :
                          (u[3] - Min(zs)) * ratio.d <= (Max(zs) - Min(zs)) * ratio.n } }

\* C28: get_convex_hull_points returns at most num_points points, each the
\* coordinates, rounded to 4 decimals, of a vertex of the mesh in its bottom
\* z_threshold_ratio slice, and the returned points are pairwise distinct.
C28_DistinctFootPoints ==
    h_pc = "returned" =>
        /\ Len(h_result.points) <= h_in.num_points
        /\ \A k \in 1..Len(h_result.points) : h_result.points[k] \in BottomVerticesRounded4
        /\ \A k \in 1..Len(h_result.points), m \in 1..Len(h_result.points) :
               k # m => h_result.points[k] # h_result.points[m]

====
